---- MODULE Spec2Model ----
(***************************************************************************)
(* DataScope: the tool-calling orchestration loops of the repository.      *)
(*                                                                         *)
(*   chat_with_llm        src/datascope-ui-app/app.py                      *)
(*   LangGraph workflow   src/src/datascope/agent/graph.py                 *)
(*                                                                         *)
(* One behaviour of Spec is one investigation: Init draws the entry point  *)
(* and the request, the actions are the steps of that entry point, and the *)
(* LLM endpoint and the tools' upstreams are the environment, whose        *)
(* answers the actions draw with \E.                                       *)
(***************************************************************************)
EXTENDS Integers, Sequences, FiniteSets, TLC

VARIABLES
    entry,                   \* which entry point this behaviour runs
    question,                \* parameter `question` of the entry point
    pc,                      \* position of chat_with_llm
    conversation_id,         \* parameter / local of chat_with_llm
    stored_summary,          \* what get_conversation_summary returns for the conversation
    history,                 \* the rows Lakebase holds of the conversation's earlier turns
    messages,                \* local list `messages` of chat_with_llm
    iteration,               \* loop variable of `for iteration in range(5)`
    tool_results_collected,  \* local list of chat_with_llm
    llm_requests,            \* requests.post calls made to the LLM endpoint
    responses,               \* answers the LLM endpoint gave, in order
    executed,                \* tool functions that were called, in order
    saved,                   \* calls of save_conversation / save_message / save_investigation
    result,                  \* the returned (response_text, conversation_id) pair
    raised,                  \* TRUE when an exception left the entry point
    state,                   \* the AgentState of the LangGraph workflow
    passes,                  \* runs of the workflow's investigate node so far
    tool,                    \* which tool implementation a tool call runs
    query,                   \* parameter `query` / `table_name` of the tool, as characters
    headers,                 \* headers of the HTTP request that carries the tool call
    config,                  \* the environment variables the gateway read at start
    outbound,                \* requests.post calls made to Databricks, with their answers
    returned,                \* what the tool returned
    server,                  \* which MCP server a request is sent to
    request,                 \* the body of the POST /mcp request
    github,                  \* whether api.github.com can be reached
    reply,                   \* the HTTP reply of the MCP server
    lakebase,                \* what Lakebase does with the writes of chat_with_llm
    sql_result,              \* the SQLResult that to_markdown is called on
    markdown,                \* what to_markdown returned
    conversations,           \* the ids save_conversation was called with since the server started
    generated,               \* calls of generate_id since the server started
    now,                     \* what time.time() returns
    _oauth_token,            \* global of datascope-ui-app/app.py
    _oauth_token_expiry,     \* global of datascope-ui-app/app.py
    token_calls,             \* the calls of get_oauth_token so far, with what each did
    _agent,                  \* global of datascope-langgraph-app/agent/graph.py
    invocations,             \* the calls of create_agent and invoke_agent so far
    _token_cache,            \* global of datascope-mcp-server/app.py
    threads,                 \* the requests the gateway is serving, one per thread
    client,                  \* the fields of one MCPClient
    mcp_requests             \* the JSON-RPC requests the MCPClient sent, with their outcome

\* The variables of one MCP request.
transport == <<server, request, github, reply>>

\* The variables of one tool call; an investigation leaves them alone.
serving == <<transport, tool, query, headers, config, outbound, returned>>

\* The variables of one investigation; a tool call leaves them alone.
investigation == <<entry, question, pc, conversation_id, stored_summary, history, messages,
                   iteration, tool_results_collected, llm_requests, responses,
                   executed, saved, result, raised, state, passes, lakebase,
                   conversations, generated>>

\* The variables of one to_markdown call.
formatting == <<sql_result, markdown>>

\* The state of the three server processes that outlives a request: clock,
\* caches, the MCP client; an investigation and a tool call leave it alone.
process == <<now, _oauth_token, _oauth_token_expiry, token_calls, _agent, invocations,
             _token_cache, threads, client, mcp_requests>>

vars == <<investigation, serving, formatting, process>>

-----------------------------------------------------------------------------
(* Bounds of the model *)

\* Runs of the investigate node of the LangGraph workflow that are followed;
\* the workflow itself sets no such limit.
MaxPasses == 6

\* Tool calls and response texts of one investigation that depart from the
\* plain case (one execute_sql call, valid arguments, a fresh id, a reachable
\* upstream, no narration beside the tool calls).
MaxVariation == 2

-----------------------------------------------------------------------------
(* Values *)

None == "None"
NoId == 0
Omitted == "<no content key>"

\* Text is modelled as the sequence of the pieces an f-string joins.
EmptyText == <<"">>
TextIsEmpty(t) == \A i \in DOMAIN t : t[i] = ""

NoResult == [response |-> <<>>, conversation_id |-> None]

\* The question as the caller hands it over: do_POST passes on whatever JSON
\* value the request body holds under "question", provided it is truthy.
AStr == "question"
NotAStr == "<a JSON number>"

\* An LLM text is known to the code only through len(), truthiness, strip()
\* and the `kw in content` tests; the texts the endpoint may answer with:
Contents ==
    { "", " ", "short answer", "long text without marker",
      "short text with Root Cause",
      "long text with Root Cause",
      "long text with **What I Found** and How to Fix" }

TextLen(c) ==
    CASE c = "" -> 0
      [] c = " " -> 1
      [] c = "short answer" -> 12
      [] c = "long text without marker" -> 301
      [] c = "short text with Root Cause" -> 300
      [] c = "long text with Root Cause" -> 301
      [] c = "long text with **What I Found** and How to Fix" -> 302
      [] OTHER -> 40

\* the keywords of line 789 that occur in a text
KeywordsIn(c) ==
    CASE c = "short text with Root Cause" -> {"Root Cause"}
      [] c = "long text with Root Cause" -> {"Root Cause"}
      [] c = "long text with **What I Found** and How to Fix" ->
             {"**What I Found**", "How to Fix"}
      [] OTHER -> {}

\* content.strip()
Strip(c) == IF c = " " THEN "" ELSE c

\* mutant: a blank text counts as empty
Truthy_NotBlank(c) == c # "" /\ c # " "

\* mutant: the test of the text is left out
Truthy_Always(c) == TRUE

\* Python truthiness of a str
Truthy(c) == c # ""

-----------------------------------------------------------------------------
(* chat_with_llm: the tool catalog and the dispatch of one tool call *)

\* the `tools` list of chat_with_llm and the names its if/elif chain knows
CatalogNames == {"search_patterns", "execute_sql", "search_code"}

\* names an LLM may put in a tool call: the catalog and one unregistered name
ToolNames == CatalogNames \cup {"get_table_lineage"}

\* fn["arguments"] as the LLM may send it:
\*   object      a JSON object whose parameter is a string
\*   not_json    text json.loads rejects
\*   not_object  valid JSON that is no object (a list, a number, null)
\*   non_string  a JSON object whose parameter is a number
ArgKinds == {"object", "not_json", "not_object", "non_string"}

\* try: args = json.loads(...) except: args = {}
ParsedArgs(arguments) == IF arguments = "not_json" THEN "empty_object" ELSE arguments

\* args.get(...) raises AttributeError when args is no dict
ArgsGetRaises(args) == args = "not_object"

\* args.get(key, '')[:n] raises TypeError when the value is no str
SliceRaises(args) == args = "non_string"

\* The three tool functions catch every exception and always return a str.
ToolOutput(name, upstream) ==
    CASE name = "search_patterns" ->
             IF upstream = "ok" THEN "**Similar Past Issues Found:**"
             ELSE "Pattern search error: "
      [] name = "execute_sql" ->
             IF upstream = "ok" THEN "| rows |" ELSE "Error: "
      [] name = "search_code" ->
             IF upstream = "ok" THEN "**File: **" ELSE "Code search error: "

CollectedEntry(name) ==
    CASE name = "search_patterns" -> "Pattern search: "
      [] name = "execute_sql" -> "SQL: "
      [] name = "search_code" -> "Code search: "

\* mutant: the tool message does not carry the id of its call
ToolMessage_NoId(tc, text) ==
    [role |-> "tool", content |-> text, tool_calls |-> <<>>, tool_call_id |-> NoId]

ToolMessage(tc, text) ==
    [role |-> "tool", content |-> text, tool_calls |-> <<>>, tool_call_id |-> tc.id]

\* mutant: a name outside the catalog raises instead of yielding an error text
DispatchOne_UnknownRaises(st, tc, upstream, k, i) ==
    IF tc.name \in CatalogNames /\ ~ArgsGetRaises(ParsedArgs(tc.arguments))
                               /\ ~(tc.name # "search_code" /\ SliceRaises(ParsedArgs(tc.arguments)))
    THEN [st EXCEPT
            !.executed = Append(@, [iteration |-> k, index |-> i, name |-> tc.name]),
            !.collected = Append(@, CollectedEntry(tc.name)),
            !.messages = Append(@, ToolMessage(tc, ToolOutput(tc.name, upstream)))]
    ELSE [st EXCEPT !.raised = TRUE]

\* One pass of `for tc in tool_calls` (lines 808-832) on the loop state
\* st = [messages, collected, executed, raised]; k is the iteration, i the
\* place of tc in its batch.
DispatchOne(st, tc, upstream, k, i) ==
    LET args == ParsedArgs(tc.arguments)
        ran  == Append(st.executed, [iteration |-> k, index |-> i, name |-> tc.name])
    IN  IF tc.name \in CatalogNames
        THEN IF ArgsGetRaises(args)
             THEN [st EXCEPT !.raised = TRUE]
             ELSE IF tc.name # "search_code" /\ SliceRaises(args)
             THEN [st EXCEPT !.executed = ran, !.raised = TRUE]
             ELSE [st EXCEPT
                     !.executed = ran,
                     !.collected = Append(@, CollectedEntry(tc.name)),
                     !.messages = Append(@, ToolMessage(tc, ToolOutput(tc.name, upstream)))]
        ELSE [st EXCEPT
                !.messages = Append(@, ToolMessage(tc, "Unknown tool: " \o tc.name))]

\* mutant: only the first call of a batch is dispatched
DispatchFrom_FirstOnly(st, tool_calls, upstreams, k, i) ==
    IF i > 1 \/ i > Len(tool_calls)
    THEN st
    ELSE DispatchOne(st, tool_calls[i], upstreams[i], k, i)

RECURSIVE DispatchFrom(_, _, _, _, _)
DispatchFrom(st, tool_calls, upstreams, k, i) ==
    IF i > Len(tool_calls) \/ st.raised
    THEN st
    ELSE DispatchFrom(DispatchOne(st, tool_calls[i], upstreams[i], k, i),
                      tool_calls, upstreams, k, i + 1)

-----------------------------------------------------------------------------
(* The environment of chat_with_llm: what the LLM endpoint may answer *)

\* An answer of the endpoint:
\*   kind "raise": requests.post, resp.json() or choices[0] raises
\*   kind "reply": an HTTP reply with a status; for status 200 the parsed
\*                 message (content, tool_calls) and, for each tool call, the
\*                 state of the upstream its tool will find
HttpError == [kind |-> "reply", status |-> 500, content |-> "", tool_calls |-> <<>>,
              upstreams |-> <<>>]
Unparsable == [kind |-> "raise", status |-> 200, content |-> "", tool_calls |-> <<>>,
               upstreams |-> <<>>]
Reply(content, calls) ==
    [kind |-> "reply", status |-> 200, content |-> content,
     tool_calls |-> [i \in DOMAIN calls |->
                        [id |-> calls[i].id, name |-> calls[i].name,
                         arguments |-> calls[i].arguments]],
     upstreams |-> [i \in DOMAIN calls |-> calls[i].upstream]]

RECURSIVE CallsIn(_)
CallsIn(rs) == IF rs = <<>> THEN 0 ELSE Len(rs[1].tool_calls) + CallsIn(Tail(rs))

\* how far the p-th tool call of an investigation departs from the plain case
CallVariation(c, p) ==
      (IF c.name # "execute_sql" THEN 1 ELSE 0)
    + (IF c.arguments # "object" THEN 1 ELSE 0)
    + (IF c.id # p THEN 1 ELSE 0)
    + (IF c.upstream # "ok" THEN 1 ELSE 0)

\* The p-th call carries a fresh id (p) or repeats the id of the first call.
CallChoices(p, budget) ==
    { c \in [id : {p, 1}, name : ToolNames, arguments : ArgKinds,
             upstream : {"ok", "down"}] : CallVariation(c, p) <= budget }

RECURSIVE Batches(_, _, _)
Batches(n, p, budget) ==
    IF n = 0 THEN {<<>>}
    ELSE UNION { { <<c>> \o rest : rest \in Batches(n - 1, p + 1, budget - CallVariation(c, p)) }
                 : c \in CallChoices(p, budget) }

RECURSIVE Variation(_, _)
Variation(rs, p) ==
    IF rs = <<>> THEN 0
    ELSE LET r == rs[1]
             n == Len(r.tool_calls)
             RECURSIVE Sum(_)
             Sum(i) == IF i > n THEN 0
                       ELSE CallVariation([id |-> r.tool_calls[i].id,
                                           name |-> r.tool_calls[i].name,
                                           arguments |-> r.tool_calls[i].arguments,
                                           upstream |-> r.upstreams[i]], p + i - 1)
                            + Sum(i + 1)
         IN  (IF n > 0 THEN (n - 1) + Sum(1) + (IF r.content # "" THEN 1 ELSE 0) ELSE 0)
             + Variation(Tail(rs), p + n)

\* Answers to a request that carries the tool catalog, after the answers rs.
AnswersWithTools(rs) ==
    LET left == MaxVariation - Variation(rs, 1)
        p    == CallsIn(rs) + 1
    IN  UNION { UNION { { Reply(c, b) : b \in Batches(n, p, left - n) }
                        : n \in 1..left }
                : c \in Contents \ {""} }
        \cup UNION { { Reply("", b) : b \in Batches(n, p, left - (n - 1)) }
                     : n \in 1..(left + 1) }
        \cup { Reply(c, <<>>) : c \in Contents }
        \cup {HttpError, Unparsable}

\* Answers to the finalization request, which carries no tool catalog.
AnswersWithoutTools ==
    {HttpError, Unparsable}
    \cup { Reply(c, <<>>) :
             c \in {"", " ", "long text with **What I Found** and How to Fix"} }

-----------------------------------------------------------------------------
(* chat_with_llm, src/datascope-ui-app/app.py lines 679-884 *)

\* range(5) of the investigation loop
MaxIterations == 5

\* tool_results_collected[:5] of the fallback text
FallbackListed == 5

\* the length a text must exceed to be tested for the report keywords
MinReportLen == 300

Keywords == {"**What I Found**", "**The Problem**", "Root Cause", "How to Fix"}

SYSTEM_PROMPT == "SYSTEM_PROMPT"
summary_prompt == "Based on your investigation above, provide your final answer"

Message(role, content) ==
    [role |-> role, content |-> content, tool_calls |-> <<>>, tool_call_id |-> NoId]

\* lines 799-806: the content key is set only for a text that is not blank
AssistantMessage(content, tool_calls) ==
    [role |-> "assistant",
     content |-> IF Truthy(content) /\ Truthy(Strip(content)) THEN content ELSE Omitted,
     tool_calls |-> tool_calls, tool_call_id |-> NoId]

\* lines 788-790: a text beside tool calls that is taken for the final answer
LooksFinal(content) ==
    /\ Truthy(content)
    /\ TextLen(content) > MinReportLen
    /\ \E kw \in Keywords : kw \in KeywordsIn(content)

\* lines 883-884: except Exception as e
ExceptionHandler(cid) ==
    [raised |-> FALSE,
     result |-> [response |-> <<"Error: ", "str(e)">>, conversation_id |-> cid]]

\* lines 875-881: the text returned when the finalization answer is empty
Fallback(collected) ==
    IF collected # <<>>
    THEN <<"**Investigation completed** but the model didn't generate a summary.",
           "Tools used during investigation:">>
         \o [i \in 1..(IF Len(collected) < FallbackListed THEN Len(collected)
                       ELSE FallbackListed) |-> "- " \o collected[i]]
         \o <<"Please try rephrasing your question.">>
    ELSE <<"I wasn't able to complete the investigation. Please try a different question.">>

SaveCall(fn, role, text) == [fn |-> fn, role |-> role, text |-> text]

\* save_message + save_investigation + return (content, conversation_id)
ReturnAnswer(content) ==
    /\ saved' = saved \o << SaveCall("save_message", "assistant", <<content>>),
                            SaveCall("save_investigation", "", <<content>>) >>
    /\ result' = [response |-> <<content>>, conversation_id |-> conversation_id]
    /\ raised' = FALSE
    /\ pc' = "done"

\* mutant: a text that is no answer of the investigation is saved as well
ReturnText_Saved(text) ==
    /\ saved' = Append(saved, SaveCall("save_message", "assistant", text))
    /\ result' = [response |-> text, conversation_id |-> conversation_id]
    /\ raised' = FALSE
    /\ pc' = "done"

\* return (text, conversation_id) with nothing saved: lines 769, 862, 881
ReturnText(text) ==
    /\ saved' = saved
    /\ result' = [response |-> text, conversation_id |-> conversation_id]
    /\ raised' = FALSE
    /\ pc' = "done"

ReturnException ==
    LET h == ExceptionHandler(conversation_id)
    IN  /\ saved' = saved
        /\ result' = h.result
        /\ raised' = h.raised
        /\ pc' = "done"

\* mutant: the status of the answer is not looked at
StatusOk_Any(r) == TRUE

\* lines 768 and 861: resp.status_code != 200
StatusOk(r) == r.status = 200

\* lines 761-766: the payload of an investigation request (n messages sent);
\* requests.post is given no timeout
InvestigationRequest(n) == [tools |-> TRUE, last |-> n, timeout |-> None]

\* mutant: the finalization request still carries the tool catalog
SummaryRequest_WithTools(n) == [tools |-> TRUE, last |-> n, timeout |-> None]

\* lines 855-859: the payload of the finalization request
SummaryRequest(n) == [tools |-> FALSE, last |-> n, timeout |-> None]

\* `for iteration in range(5)`: where control goes after the pass `i`
AfterPass(i) == IF i + 1 < MaxIterations THEN "gather" ELSE "finalize"

(* The persistence writes: save_conversation, save_message, save_investigation *)

\* What Lakebase does with an INSERT: it runs it, it answers with a status
\* that is not 200 or a state that is not SUCCEEDED, it cannot be reached
\* (requests.post raises), or LAKEBASE_ENABLED is false.
StoreConditions == {"up", "rejects", "unreachable", "disabled"}

\* What a call comes to: it raises, or it returns; `written` tells whether
\* the row is in the table.
Raises == [raises |-> TRUE, written |-> FALSE]
ReturnsAfter(written) == [raises |-> FALSE, written |-> written]

\* the try block of execute_sql_internal, lines 240-258
PostStatement(store) ==
    CASE store = "up" -> ReturnsAfter(TRUE)
      [] store = "rejects" -> ReturnsAfter(FALSE)
      [] store = "unreachable" -> Raises

\* execute_sql_internal, lines 238-260: `except Exception: return None`
execute_sql_internal(store) ==
    IF PostStatement(store).raises THEN ReturnsAfter(FALSE) ELSE PostStatement(store)

\* text.replace("'", "''") raises AttributeError on a value that is no str
ReplaceRaises(text) == text = <<NotAStr>>

\* mutant: the save functions have no handler of their own
Handled_Nothing(outcome) == outcome

\* `except Exception as e: print(...); return ...` of lines 136-138, 158-160
\* and 233-235
Handled(outcome) == IF outcome.raises THEN ReturnsAfter(FALSE) ELSE outcome

\* One call of save_conversation, save_message or save_investigation, as
\* chat_with_llm makes it for the question q: the test of LAKEBASE_ENABLED,
\* then the try block, which escapes the texts and runs the INSERT.
save_call(call, q, store) ==
    IF store = "disabled"
    THEN ReturnsAfter(FALSE)
    ELSE Handled(IF \/ ReplaceRaises(call.text)
                    \/ call.fn = "save_investigation" /\ ReplaceRaises(<<q>>)
                 THEN Raises
                 ELSE execute_sql_internal(store))

(* get_conversation_summary, lines 163-211 *)

\* Earlier turns of a conversation that are followed, at most.
MaxTurns == 3

\* The content of a stored row: a text and its length.
Content(text, len) == [text |-> text, len |-> len]

\* mutant: nothing is cut
Cut_Whole(c, n) == c

\* content[:n]
Cut(c, n) == IF c.len > n THEN Content(c.text \o "[:" \o ToString(n) \o "]", n) ELSE c

\* The rows one earlier turn left: save_message(conversation_id, "user",
\* question) of line 752 and, when the turn came to its answer,
\* save_message(conversation_id, "assistant", content) of lines 781, 792,
\* 871 and 878.
TurnRows(i) ==
    {<<[role |-> "user", content |-> Content("q" \o ToString(i), qlen)]>> \o answer :
        qlen \in {9, 250},
        answer \in {<< >>} \cup
                   {<<[role |-> "assistant", content |-> Content("a" \o ToString(i), alen)]>> :
                       alen \in {120, 600}}}

RECURSIVE Histories(_)
Histories(n) ==
    IF n = 0 THEN {<< >>}
    ELSE LET shorter == Histories(n - 1)
         IN  shorter \cup {h \o t : h \in {x \in shorter : Len(x) >= n - 1}, t \in TurnRows(n)}

\* lines 173-181: the rows the SELECT yields
SelectedRows(rows) ==
    SelectSeq(rows, LAMBDA r : r.role \in {"user", "assistant"} /\ r.content.len > 10)

\* lines 190-200: pair each user row with the assistant row that follows it;
\* i counts from 1, the loop runs while i < len(result)
RECURSIVE PairUp(_, _)
PairUp(rows, i) ==
    IF ~(i < Len(rows)) THEN << >>
    ELSE IF rows[i].role = "user" /\ rows[i + 1].role = "assistant"
    THEN <<[user_q |-> Cut(rows[i].content, 200), asst_a |-> Cut(rows[i + 1].content, 500)]>>
           \o PairUp(rows, i + 2)
    ELSE PairUp(rows, i + 1)

\* mutant: every exchange is replayed
LastTwo_All(exchanges) == exchanges

\* exchanges[-2:], line 206
LastTwo(exchanges) ==
    SubSeq(exchanges, IF Len(exchanges) > 2 THEN Len(exchanges) - 1 ELSE 1, Len(exchanges))

\* A literal text, and a + b.
Lit(s) == Content(s, Len(s))
Cat(a, b) == Content(a.text \o b.text, a.len + b.len)

\* sep.join(parts)
RECURSIVE join(_, _)
join(sep, parts) ==
    IF parts = << >> THEN Lit("")
    ELSE IF Len(parts) = 1 THEN parts[1]
    ELSE Cat(parts[1], Cat(Lit(sep), join(sep, Tail(parts))))

\* lines 206-209: summary_parts, three lines for each exchange
RECURSIVE SummaryParts(_)
SummaryParts(exchanges) ==
    IF exchanges = << >> THEN << >>
    ELSE LET q == Head(exchanges).user_q
             a == Head(exchanges).asst_a
         IN  << Cat(Lit("User asked: \""), Cat(q, Lit("\""))),
                Cat(Lit("You found: \""),
                    Cat(Cut(a, 400), Lit(IF a.len > 400 THEN "...\"" ELSE "\""))),
                Lit("") >>
               \o SummaryParts(Tail(exchanges))

\* line 211
SummaryText(exchanges) ==
    Cat(Lit("## Previous Context\n\n"), join("\n", SummaryParts(exchanges)))

\* The text returned, with its length.
get_conversation_summary(rows) ==
    LET selected == SelectedRows(rows)
        exchanges == PairUp(selected, 1)
    IN  IF Len(selected) < 2 THEN Lit("")
        ELSE IF exchanges = << >> THEN Lit("")
        ELSE SummaryText(LastTwo(exchanges))

\* lines 741-744
SystemContent(context_summary) ==
    IF Truthy(context_summary)
    THEN SYSTEM_PROMPT \o "\n\n" \o context_summary
         \o "\n\nNow answer the user's follow-up question using the context above."
    ELSE SYSTEM_PROMPT

\* question[:100] (line 695) is a slice: a str yields its head, a value that
\* is no sequence (a JSON number, object, true) raises TypeError
SliceOfQuestionRaises(q) == q = NotAStr

\* mutant: every call gives the same id
generate_id_Fixed(n) == "uuid4-0"

\* generate_id, lines 118-120: str(uuid.uuid4()), a fresh id at each call;
\* n is the number of calls made before this one
generate_id(n) == "uuid4-" \o ToString(n)

\* line 693, `if not conversation_id`: None (the key is absent from the body,
\* or null) and the empty string are both falsy
NoConversationId(cid) == cid = None \/ cid = ""

\* lines 692-756; they stand before the `try` of line 758
Begin ==
    /\ entry = "chat_with_llm"
    /\ pc = "start"
    /\ IF NoConversationId(conversation_id) /\ SliceOfQuestionRaises(question)
       THEN /\ conversation_id' = generate_id(generated)
            /\ generated' = generated + 1
            /\ raised' = TRUE
            /\ pc' = "raised"
            /\ UNCHANGED <<messages, saved, tool_results_collected, iteration, conversations>>
       ELSE /\ LET cid == IF NoConversationId(conversation_id) THEN generate_id(generated)
                          ELSE conversation_id
                   context_summary == stored_summary
                   system_content == SystemContent(context_summary)
               IN  /\ conversation_id' = cid
                   /\ messages' = << Message("system", system_content),
                                     Message("user", question) >>
                   /\ saved' = (IF NoConversationId(conversation_id)
                                THEN << SaveCall("save_conversation", "", <<question>>) >>
                                ELSE << >>)
                               \o << SaveCall("save_message", "user", <<question>>) >>
                   /\ conversations' = (IF NoConversationId(conversation_id)
                                        THEN Append(conversations, cid)
                                        ELSE conversations)
            /\ generated' = (IF NoConversationId(conversation_id) THEN generated + 1
                             ELSE generated)
            /\ tool_results_collected' = << >>
            /\ iteration' = 0
            /\ pc' = "gather"
            /\ raised' = FALSE
    /\ UNCHANGED <<serving, formatting, process, lakebase, history, entry, question,
                   stored_summary, llm_requests, responses, executed, result, state, passes>>

\* lines 760-832: one pass of the loop body
Gather ==
    /\ entry = "chat_with_llm"
    /\ pc = "gather"
    /\ \E r \in AnswersWithTools(responses) :
        /\ llm_requests' = Append(llm_requests, InvestigationRequest(Len(messages)))
        /\ responses' = Append(responses, r)
        /\ IF r.kind = "raise"
           THEN /\ ReturnException
                /\ UNCHANGED <<messages, tool_results_collected, executed, iteration>>
           ELSE IF ~StatusOk(r)
           THEN /\ ReturnText(<<"LLM Error: ", "resp.text[:300]">>)
                /\ UNCHANGED <<messages, tool_results_collected, executed, iteration>>
           ELSE IF r.tool_calls = << >>
           THEN IF Truthy(r.content)
                THEN /\ ReturnAnswer(r.content)
                     /\ UNCHANGED <<messages, tool_results_collected, executed, iteration>>
                ELSE /\ pc' = "finalize"
                     /\ UNCHANGED <<messages, tool_results_collected, executed, iteration,
                                    saved, result, raised>>
           ELSE IF LooksFinal(r.content)
           THEN /\ ReturnAnswer(r.content)
                /\ UNCHANGED <<messages, tool_results_collected, executed, iteration>>
           ELSE LET st == DispatchFrom(
                              [messages |-> Append(messages,
                                                   AssistantMessage(r.content, r.tool_calls)),
                               collected |-> tool_results_collected,
                               executed |-> executed,
                               raised |-> FALSE],
                              r.tool_calls, r.upstreams, iteration, 1)
                IN  /\ messages' = st.messages
                    /\ tool_results_collected' = st.collected
                    /\ executed' = st.executed
                    /\ IF st.raised
                       THEN ReturnException /\ iteration' = iteration
                       ELSE /\ iteration' = iteration + 1
                            /\ pc' = AfterPass(iteration)
                            /\ UNCHANGED <<saved, result, raised>>
    /\ UNCHANGED <<serving, formatting, process, conversations, generated, lakebase, history, entry, question, conversation_id, stored_summary, state, passes>>

\* lines 834-881: the forced summary
Finalize ==
    /\ entry = "chat_with_llm"
    /\ pc = "finalize"
    /\ messages' = Append(messages, Message("user", summary_prompt))
    /\ \E r \in AnswersWithoutTools :
        /\ llm_requests' = Append(llm_requests, SummaryRequest(Len(messages')))
        /\ responses' = Append(responses, r)
        /\ IF r.kind = "raise"
           THEN ReturnException
           ELSE IF ~StatusOk(r)
           THEN ReturnText(<<"Error generating summary: ", "resp.text[:200]">>)
           ELSE IF Truthy(r.content)
           THEN ReturnAnswer(r.content)
           ELSE IF tool_results_collected # << >>
           THEN /\ saved' = Append(saved, SaveCall("save_message", "assistant",
                                                   Fallback(tool_results_collected)))
                /\ result' = [response |-> Fallback(tool_results_collected),
                              conversation_id |-> conversation_id]
                /\ raised' = FALSE
                /\ pc' = "done"
           ELSE ReturnText(Fallback(tool_results_collected))
    /\ UNCHANGED <<serving, formatting, process, conversations, generated, lakebase, history, entry, question, conversation_id, stored_summary, tool_results_collected,
                   executed, iteration, state, passes>>

\* The timeout argument of the requests.post call each tool function makes:
\* execute_sql (line 586) and search_patterns (line 647) pass none,
\* search_code passes timeout=30 (line 624).
ToolTimeout(name) ==
    CASE name = "execute_sql" -> None
      [] name = "search_patterns" -> None
      [] name = "search_code" -> "30"

\* requests.post blocks until the peer answers, or raises requests.Timeout
\* when the timeout it was given runs out.
BlocksForever(timeout) == timeout = None

\* lines 761 and 855 against an endpoint that never answers: the request is
\* sent and requests.post, given no timeout, does not return.
Wait ==
    /\ entry = "chat_with_llm"
    /\ pc \in {"gather", "finalize"}
    /\ messages' = (IF pc = "finalize" THEN Append(messages, Message("user", summary_prompt))
                    ELSE messages)
    /\ LET sent == IF pc = "gather" THEN InvestigationRequest(Len(messages))
                   ELSE SummaryRequest(Len(messages'))
       IN  /\ BlocksForever(sent.timeout)
           /\ llm_requests' = Append(llm_requests, sent)
    /\ pc' = "waiting"
    /\ UNCHANGED <<serving, formatting, process, conversations, generated, lakebase, history, entry, question, conversation_id,
                   stored_summary, iteration, tool_results_collected, saved, result, raised,
                   responses, executed, state, passes>>

-----------------------------------------------------------------------------
(* The LangGraph workflow, src/src/datascope/agent/graph.py *)

\* mutant: the state carries no trace id
create_initial_state_Untraced(q) ==
    [original_question |-> q, question_category |-> None, messages |-> << >>,
     table_schemas |-> << >>, lineage_info |-> << >>, sql_results |-> << >>,
     code_snippets |-> << >>, hypotheses |-> << >>, evidence |-> << >>,
     tables_investigated |-> << >>, queries_executed |-> << >>,
     root_cause |-> None, bug_id |-> None, affected_records |-> None,
     impact_description |-> None, recommended_fix |-> None,
     current_step |-> "classify", iteration_count |-> 0, max_iterations |-> 5,
     should_continue |-> TRUE, final_response |-> None, confidence_score |-> None,
     trace_id |-> None, start_time |-> "time.time()"]

\* create_initial_state, src/src/datascope/agent/state.py lines 65-95
create_initial_state(q) ==
    [original_question |-> q,
     question_category |-> None,
     messages |-> << >>,
     table_schemas |-> << >>,
     lineage_info |-> << >>,
     sql_results |-> << >>,
     code_snippets |-> << >>,
     hypotheses |-> << >>,
     evidence |-> << >>,
     tables_investigated |-> << >>,
     queries_executed |-> << >>,
     root_cause |-> None,
     bug_id |-> None,
     affected_records |-> None,
     impact_description |-> None,
     recommended_fix |-> None,
     current_step |-> "classify",
     iteration_count |-> 0,
     max_iterations |-> 5,
     should_continue |-> TRUE,
     final_response |-> None,
     confidence_score |-> None,
     trace_id |-> "str(uuid.uuid4())",
     start_time |-> "time.time()"]

\* graph.py line 752: investigate(question) makes the state the workflow
\* is invoked with
start_investigation ==
    /\ entry = "investigate"
    /\ pc = "start"
    /\ state' = create_initial_state(question)
    /\ pc' = "classify"
    /\ UNCHANGED <<serving, formatting, process, conversations, generated, lakebase, history, entry, question, conversation_id,
                   stored_summary, messages, iteration, tool_results_collected, saved,
                   result, raised, llm_requests, responses, executed, passes>>

\* names of the tools get_mcp_tools returns (the fallback tools)
GraphToolNames ==
    {"execute_sql", "get_table_schema", "list_tables", "get_table_lineage",
     "get_column_lineage", "search_transformation_code"}

\* names the LLM puts in a tool call: a bound tool and a name that is not bound
GraphRequestedNames == {"execute_sql", "search_patterns"}

\* texts the LLM answers the retrieve and analyze prompts with
GraphContents == {"I need more evidence", "The root cause is a missing ELSE"}

done_signals ==
    {"root cause identified", "the root cause is", "i have identified",
     "the issue is caused by", "bug found", "missing else", "duplicate records",
     "timezone mismatch"}

\* the done signals that occur in str(content).lower()
SignalsIn(content) ==
    IF content = "The root cause is a missing ELSE"
    THEN {"the root cause is", "missing else"}
    ELSE {}

LcMessage(type, content, tool_calls, tool_call_id) ==
    [type |-> type, content |-> content, tool_calls |-> tool_calls,
     tool_call_id |-> tool_call_id, id |-> 0]

\* The reducer of AgentState.messages (state.py line 22): a message whose id
\* is already in the list replaces that entry in place, any other message is
\* appended and given an id of its own.
RECURSIVE add_messages(_, _)
add_messages(left, right) ==
    IF right = << >> THEN left
    ELSE LET m == right[1]
             at == { j \in DOMAIN left : m.id # 0 /\ left[j].id = m.id }
         IN  IF at # {}
             THEN add_messages([left EXCEPT ![CHOOSE j \in at : TRUE] = m], Tail(right))
             ELSE add_messages(Append(left, [m EXCEPT !.id = Len(left) + 1]), Tail(right))

\* what a node returns is merged into the state: messages through the
\* reducer, every other key by assignment
Merge(st, update) ==
    [k \in DOMAIN st |->
        IF k \in DOMAIN update
        THEN IF k = "messages" THEN add_messages(st.messages, update.messages)
             ELSE update[k]
        ELSE st[k]]

GraphCallChoices(p, budget) ==
    { c \in [id : {p, 1}, name : GraphRequestedNames, arguments : {"object"},
             upstream : {"ok", "raises"}] : CallVariation(c, p) <= budget }

RECURSIVE GraphBatches(_, _, _)
GraphBatches(n, p, budget) ==
    IF n = 0 THEN {<<>>}
    ELSE UNION { { <<c>> \o rest :
                     rest \in GraphBatches(n - 1, p + 1, budget - CallVariation(c, p)) }
                 : c \in GraphCallChoices(p, budget) }

\* answers of llm_with_tools.invoke, after the answers rs
GraphAnswers(rs) ==
    LET left == MaxVariation - Variation(rs, 1)
        p    == CallsIn(rs) + 1
    IN  {Unparsable}
        \cup { Reply(c, <<>>) : c \in GraphContents }
        \cup UNION { { Reply("", b) : b \in GraphBatches(n, p, left - (n - 1)) }
                     : n \in 1..(left + 1) }
        \cup UNION { { Reply("The root cause is a missing ELSE", b) :
                         b \in GraphBatches(n, p, left - n) }
                     : n \in 1..left }

\* lines 505-522: the ToolMessage of one tool call
ToolResult(tool_call, upstream) ==
    IF tool_call.name \in GraphToolNames
    THEN IF upstream = "raises"
         THEN LcMessage("tool", "Error: " \o "e", << >>, tool_call.id)
         ELSE LcMessage("tool", "str(result)", << >>, tool_call.id)
    ELSE LcMessage("tool", "Unknown tool: " \o tool_call.name, << >>, tool_call.id)

\* substring test `"sql" in tool_call["name"].lower()`
NameHasSql(name) == name = "execute_sql"

RECURSIVE SqlQueries(_)
SqlQueries(tool_calls) ==
    IF tool_calls = << >> THEN << >>
    ELSE (IF NameHasSql(tool_calls[1].name) THEN <<"query">> ELSE << >>)
         \o SqlQueries(Tail(tool_calls))

\* lines 493-534; upstreams[i] is what the i-th tool's invoke meets
run_tools(st, upstreams) ==
    LET last_message == st.messages[Len(st.messages)]
    IN  IF last_message.tool_calls = << >>
        THEN [current_step |-> "analyze"]
        ELSE LET tool_results ==
                     [i \in DOMAIN last_message.tool_calls |->
                         ToolResult(last_message.tool_calls[i], upstreams[i])]
             IN  [messages |-> st.messages \o tool_results,
                  queries_executed |->
                      st.queries_executed \o SqlQueries(last_message.tool_calls),
                  iteration_count |-> st.iteration_count + 1]

\* lines 573-603
should_continue(st) ==
    LET last_message == st.messages[Len(st.messages)]
    IN  IF st.iteration_count >= st.max_iterations THEN "synthesize"
        ELSE IF last_message.tool_calls # << >> THEN "investigate"
        ELSE IF \E signal \in done_signals : signal \in SignalsIn(last_message.content)
        THEN "synthesize"
        ELSE IF st.iteration_count < 2 THEN "investigate"
        ELSE "synthesize"

LlmRaises ==
    /\ raised' = TRUE
    /\ pc' = "raised"
    /\ UNCHANGED <<state, passes, executed>>

\* lines 417-452, then the edge classify -> retrieve
classify ==
    /\ entry = "investigate"
    /\ pc = "classify"
    /\ \E r \in {Unparsable, Reply("no json", <<>>)} :
        /\ llm_requests' = Append(llm_requests, [tools |-> FALSE, last |-> 2])
        /\ responses' = Append(responses, r)
        /\ IF r.kind = "raise"
           THEN LlmRaises
           ELSE /\ state' = Merge(state,
                      [question_category |-> IF r.content = "{category}"
                                             THEN "METRIC_DISCREPANCY" ELSE "DATA_QUALITY",
                       current_step |-> "retrieve",
                       messages |-> << LcMessage("human", state.original_question, <<>>, NoId),
                                       LcMessage("ai", "Classification: ", <<>>, NoId) >>])
                /\ pc' = "retrieve"
                /\ UNCHANGED <<passes, executed, raised>>
    /\ UNCHANGED <<serving, formatting, process, conversations, generated, lakebase, history, entry, question, conversation_id, stored_summary, messages, iteration,
                   tool_results_collected, saved, result>>

\* lines 455-490, then the edge retrieve -> investigate
retrieve ==
    /\ entry = "investigate"
    /\ pc = "retrieve"
    /\ \E r \in GraphAnswers(Tail(responses)) :
        /\ llm_requests' = Append(llm_requests, [tools |-> TRUE, last |-> 2])
        /\ responses' = Append(responses, r)
        /\ IF r.kind = "raise"
           THEN LlmRaises
           ELSE /\ state' = Merge(state,
                      [messages |-> state.messages
                                    \o << LcMessage("ai", r.content, r.tool_calls, NoId) >>,
                       current_step |-> "analyze"])
                /\ pc' = "investigate"
                /\ UNCHANGED <<passes, executed, raised>>
    /\ UNCHANGED <<serving, formatting, process, conversations, generated, lakebase, history, entry, question, conversation_id, stored_summary, messages, iteration,
                   tool_results_collected, saved, result>>

\* the investigate node (run_tools), then the edge investigate -> analyze;
\* the tool calls it runs are those of the last LLM answer
investigate ==
    /\ entry = "investigate"
    /\ pc = "investigate"
    /\ passes < MaxPasses
    /\ LET r == responses[Len(responses)]
           last_message == state.messages[Len(state.messages)]
       IN  /\ state' = Merge(state, run_tools(state, r.upstreams))
           /\ executed' = executed
                 \o SelectSeq([i \in DOMAIN last_message.tool_calls |->
                                  [iteration |-> state.iteration_count, index |-> i,
                                   name |-> last_message.tool_calls[i].name]],
                              LAMBDA e : e.name \in GraphToolNames)
    /\ passes' = passes + 1
    /\ pc' = "analyze"
    /\ UNCHANGED <<serving, formatting, process, conversations, generated, lakebase, history, entry, question, conversation_id, stored_summary, messages, iteration,
                   tool_results_collected, saved, result, raised, llm_requests, responses>>

\* lines 537-570, then the conditional edge of should_continue
analyze ==
    /\ entry = "investigate"
    /\ pc = "analyze"
    /\ \E r \in GraphAnswers(Tail(responses)) :
        /\ llm_requests' = Append(llm_requests,
                                  [tools |-> TRUE, last |-> Len(state.messages) + 1])
        /\ responses' = Append(responses, r)
        /\ IF r.kind = "raise"
           THEN LlmRaises
           ELSE /\ state' = Merge(state,
                      [messages |-> state.messages
                                    \o << LcMessage("human", "analysis_prompt", <<>>, NoId),
                                          LcMessage("ai", r.content, r.tool_calls, NoId) >>])
                /\ pc' = should_continue(state')
                /\ UNCHANGED <<passes, executed, raised>>
    /\ UNCHANGED <<serving, formatting, process, conversations, generated, lakebase, history, entry, question, conversation_id, stored_summary, messages, iteration,
                   tool_results_collected, saved, result>>

\* lines 606-648, then the edge synthesize -> END
synthesize ==
    /\ entry = "investigate"
    /\ pc = "synthesize"
    /\ \E r \in {Unparsable, Reply("## Summary", <<>>)} :
        /\ llm_requests' = Append(llm_requests, [tools |-> FALSE, last |-> 2])
        /\ responses' = Append(responses, r)
        /\ IF r.kind = "raise"
           THEN LlmRaises
           ELSE /\ state' = Merge(state,
                      [final_response |-> r.content,
                       current_step |-> "complete",
                       should_continue |-> FALSE])
                /\ pc' = "END"
                /\ UNCHANGED <<passes, executed, raised>>
    /\ UNCHANGED <<serving, formatting, process, conversations, generated, lakebase, history, entry, question, conversation_id, stored_summary, messages, iteration,
                   tool_results_collected, saved, result>>

-----------------------------------------------------------------------------
(***************************************************************************)
(* The SQL tools.                                                          *)
(*                                                                         *)
(*   execute_sql, search_patterns, get_table_schema of the gateway         *)
(*                        src/datascope-mcp-server/app.py                  *)
(*   execute_sql          src/datascope-ui-app/app.py                      *)
(*   execute_sql          src/datascope-langgraph-app/agent/tools.py       *)
(*                                                                         *)
(* One behaviour of SqlSpec is one tool call: SqlInit draws the tool, its  *)
(* argument, the headers of the request and the gateway's configuration,   *)
(* and Databricks is the environment, whose answer the action draws.       *)
(***************************************************************************)

\* Pieces a statement is put together from, at most.
MaxPieces == 2

\* Rows in one answer of the warehouse, at most.
MaxRows == 17

\* The cap on the rows a query tool hands back.
MAX_ROWS == 15

\* A text the tools inspect is the sequence of its characters.
LowerCase ==
    <<"a", "b", "c", "d", "e", "f", "g", "h", "i", "j", "k", "l", "m", "n",
      "o", "p", "q", "r", "s", "t", "u", "v", "w", "x", "y", "z">>
UpperCase ==
    <<"A", "B", "C", "D", "E", "F", "G", "H", "I", "J", "K", "L", "M", "N",
      "O", "P", "Q", "R", "S", "T", "U", "V", "W", "X", "Y", "Z">>
Whitespace == {" ", "\n", "\t"}

\* str.upper()
str_upper(s) ==
    [i \in DOMAIN s |->
        IF \E k \in DOMAIN LowerCase : LowerCase[k] = s[i]
        THEN UpperCase[CHOOSE k \in DOMAIN LowerCase : LowerCase[k] = s[i]]
        ELSE s[i]]

\* str.strip()
str_strip(s) ==
    LET kept == {i \in DOMAIN s : s[i] \notin Whitespace}
    IN  IF kept = {} THEN << >>
        ELSE SubSeq(s, CHOOSE i \in kept : \A j \in kept : i <= j,
                       CHOOSE i \in kept : \A j \in kept : j <= i)

\* str.startswith(p)
startswith(s, p) == Len(p) <= Len(s) /\ SubSeq(s, 1, Len(p)) = p

\* kw in s
str_in(kw, s) == \E i \in 0..(Len(s) - Len(kw)) : SubSeq(s, i + 1, i + Len(kw)) = kw

\* s.count(c)
str_count(s, c) == Cardinality({i \in DOMAIN s : s[i] = c})

kwSELECT == <<"S", "E", "L", "E", "C", "T">>
kwDESCRIBE == <<"D", "E", "S", "C", "R", "I", "B", "E">>
kwDESC == <<"D", "E", "S", "C">>
kwSHOW == <<"S", "H", "O", "W">>
kwDROP == <<"D", "R", "O", "P">>
kwDELETE == <<"D", "E", "L", "E", "T", "E">>
kwUPDATE == <<"U", "P", "D", "A", "T", "E">>
kwINSERT == <<"I", "N", "S", "E", "R", "T">>
kwALTER == <<"A", "L", "T", "E", "R">>
kwTRUNCATE == <<"T", "R", "U", "N", "C", "A", "T", "E">>
kwCREATE == <<"C", "R", "E", "A", "T", "E">>

\* The statements and names the tools are called with.
\* 'SELECT * FROM t'
SelectAll ==
    <<"S", "E", "L", "E", "C", "T", " ", "*", " ", "F", "R", "O", "M", " ",
      "t">>
\* '; DROP TABLE t'
ThenDropTable ==
    <<";", " ", "D", "R", "O", "P", " ", "T", "A", "B", "L", "E", " ", "t">>
\* 'DROP TABLE t'
DropTable ==
    <<"D", "R", "O", "P", " ", "T", "A", "B", "L", "E", " ", "t">>
\* 'select created_at from t'
SelectCreatedAt ==
    <<"s", "e", "l", "e", "c", "t", " ", "c", "r", "e", "a", "t", "e", "d",
      "_", "a", "t", " ", "f", "r", "o", "m", " ", "t">>
\* ' \n'
Blank ==
    <<" ", "\n">>
\* 'desc t'
DescTable ==
    <<"d", "e", "s", "c", " ", "t">>
\* 'Show tables'
ShowTables ==
    <<"S", "h", "o", "w", " ", "t", "a", "b", "l", "e", "s">>
\* 'WITH x AS (SELECT 1) '
WithClause ==
    <<"W", "I", "T", "H", " ", "x", " ", "A", "S", " ", "(", "S", "E", "L",
      "E", "C", "T", " ", "1", ")", " ">>
\* 'update t set a = 1'
UpdateRow ==
    <<"u", "p", "d", "a", "t", "e", " ", "t", " ", "s", "e", "t", " ", "a",
      " ", "=", " ", "1">>
\* 'DESCRIBE '
DescribePrefix ==
    <<"D", "E", "S", "C", "R", "I", "B", "E", " ">>
\* 'novatech.gold.orders'
QualifiedName ==
    <<"n", "o", "v", "a", "t", "e", "c", "h", ".", "g", "o", "l", "d", ".",
      "o", "r", "d", "e", "r", "s">>
\* 'orders'
BareName ==
    <<"o", "r", "d", "e", "r", "s">>
\* 'novatech.gold.updates'
QualifiedUpdates ==
    <<"n", "o", "v", "a", "t", "e", "c", "h", ".", "g", "o", "l", "d", ".",
      "u", "p", "d", "a", "t", "e", "s">>

Pieces == {SelectAll, ThenDropTable, DropTable, SelectCreatedAt, Blank, DescTable,
           ShowTables, WithClause, UpdateRow}

RECURSIVE Concatenations(_)
Concatenations(n) ==
    IF n = 0 THEN {<< >>}
    ELSE LET shorter == Concatenations(n - 1)
         IN  shorter \cup {s \o p : s \in shorter, p \in Pieces}

Statements == Concatenations(MaxPieces)
TableNames == {QualifiedName, BareName, QualifiedUpdates}
IssueTexts == {BareName, UpdateRow}

\* The tool implementations.
GatewayTools == {"execute_sql", "search_patterns", "get_table_schema"}
AgentTools == {"ui_app.execute_sql", "langgraph_app.execute_sql"}

\* What the gateway read from its environment, lines 110-116.
GatewayConfig(host, warehouse, index, fallback) ==
    [DATABRICKS_HOST |-> host, SQL_WAREHOUSE_ID |-> warehouse, VS_INDEX |-> index,
     DATABRICKS_FALLBACK_TOKEN |-> fallback]
Configured == {GatewayConfig("https://dbx", "wh-1", "patterns", fallback) :
                   fallback \in {"", "service-token"}}
HalfConfigured == {GatewayConfig("", "wh-1", "patterns", ""),
                   GatewayConfig("https://dbx", "", "patterns", ""),
                   GatewayConfig("https://dbx", "wh-1", "", "")}

\* What an agent app calls Databricks with: its own credential.
AgentConfig == [DATABRICKS_HOST |-> "https://dbx", SQL_WAREHOUSE_ID |-> "wh-1",
                DATABRICKS_TOKEN |-> "app-token"]

\* The headers of the request: a function from header names to values.
NoHeaders == [name \in {} |-> ""]
UserHeader == [name \in {"X-User-Token"} |-> "user-token"]
Headers == {NoHeaders, UserHeader, [name \in {"X-User-Token"} |-> "  "]}

\* request.headers.get(name, default)
headers_get(h, name, default) == IF name \in DOMAIN h THEN h[name] ELSE default

\* str.strip() of a header value
token_strip(v) == IF v = "  " THEN "" ELSE v

\* get_user_token, lines 459-483
get_user_token ==
    LET user_token == token_strip(headers_get(headers, "X-User-Token", ""))
    IN  IF user_token # "" THEN [token |-> user_token, is_user_token |-> TRUE]
        ELSE IF config.DATABRICKS_FALLBACK_TOKEN # ""
             THEN [token |-> config.DATABRICKS_FALLBACK_TOKEN, is_user_token |-> FALSE]
             ELSE [token |-> "", is_user_token |-> FALSE]

\* The answers of Databricks to one request.
Succeeded(data_array) ==
    {[kind |-> "reply", status |-> 200, state |-> "SUCCEEDED",
      result |-> [data_array |-> data_array]],
     [kind |-> "reply", status |-> 200, state |-> "SUCCEEDED",
      result |-> [data_array |-> data_array, row_count |-> Len(data_array)]]}
RowsReturned == {0, 1} \cup ((MAX_ROWS - 1)..MaxRows)
WarehouseAnswers ==
    {[kind |-> "raise", exception |-> e] : e \in {"Timeout", "ConnectionError"}}
      \cup {[kind |-> "reply", status |-> s] : s \in {401, 403, 500}}
      \cup {[kind |-> "unparsable", status |-> 200]}
      \cup {[kind |-> "reply", status |-> 200, state |-> s] : s \in {"FAILED", "PENDING"}}
      \cup UNION {Succeeded([i \in 1..n |-> i]) : n \in RowsReturned}
\* Rows of the vector search index: a row is modelled by its number of cells.
IndexAnswers ==
    {[kind |-> "raise", exception |-> "ConnectionError"]}
      \cup {[kind |-> "reply", status |-> s] : s \in {401, 403, 500}}
      \cup {[kind |-> "reply", status |-> 200, result |-> [data_array |-> rows]] :
                rows \in {<< >>, <<6>>, <<6, 5, 7>>}}

\* lines 623-631 of the gateway, 297-301 of the LangGraph app
allowed_prefixes == {kwSELECT, kwDESCRIBE, kwDESC, kwSHOW}
dangerous_keywords_NoDrop ==
    {kwDELETE, kwUPDATE, kwINSERT, kwALTER, kwTRUNCATE, kwCREATE}
dangerous_keywords ==
    {kwDROP, kwDELETE, kwUPDATE, kwINSERT, kwALTER, kwTRUNCATE, kwCREATE}
tools_dangerous_keywords ==
    {kwDROP, kwDELETE, kwUPDATE, kwINSERT, kwALTER, kwTRUNCATE}
query_upper(q) == str_strip(str_upper(q))

\* s[:n]
Slice(s, n) == SubSeq(s, 1, IF Len(s) < n THEN Len(s) ELSE n)

Pending == [pending |-> TRUE]
Refuse(message) == [send |-> FALSE, refusal |-> message, token |-> "", is_user_token |-> FALSE]

\* execute_sql of the gateway before it looks at the statement, lines
\* 608-621: the configuration it needs and the token it will send with.
PreparePlan(user_token) ==
    IF config.DATABRICKS_HOST = "" THEN Refuse("Databricks host not configured")
    ELSE IF config.SQL_WAREHOUSE_ID = "" THEN Refuse("SQL Warehouse ID not configured")
    ELSE LET t == IF user_token = None THEN get_user_token
                  ELSE [token |-> user_token, is_user_token |-> TRUE]
         IN  IF t.token = ""
             THEN Refuse("No Databricks token available. User must authenticate.")
             ELSE [send |-> TRUE, refusal |-> "", token |-> t.token,
                   is_user_token |-> t.is_user_token]

\* execute_sql of the gateway up to its request, lines 608-631: what it
\* refuses, and the token it sends the others with.
ExecuteSqlPlan(q, user_token) ==
    LET plan == PreparePlan(user_token)
    IN  IF ~plan.send THEN plan
        ELSE IF ~\E p \in allowed_prefixes : startswith(query_upper(q), p)
        THEN Refuse("Only SELECT, DESCRIBE, and SHOW queries are allowed")
        ELSE IF \E kw \in dangerous_keywords : str_in(kw, query_upper(q))
        THEN Refuse("Only read-only queries are allowed")
        ELSE plan

\* execute_sql of the gateway from its answer on, lines 646-678
ExecuteSqlResult(answer, is_user_token) ==
    IF answer.kind = "raise"
    THEN [error |-> IF answer.exception = "Timeout"
                    THEN <<"Query timed out after 30 seconds">> ELSE <<"str(e)">>]
    ELSE IF answer.status = 401
    THEN [error |-> <<"Authentication failed. User token may be expired.">>]
    ELSE IF answer.status = 403
    THEN [error |-> <<"Access denied. User may not have permission for this query.">>]
    ELSE IF answer.status # 200
    THEN [error |-> <<"SQL error (", "resp.status_code", "): ", "resp.text[:200]">>]
    ELSE IF answer.kind = "unparsable"
    THEN [error |-> <<"str(e)">>]
    ELSE IF answer.state = "SUCCEEDED"
    THEN LET rows == Slice(answer.result.data_array, 15)
             row_count == IF "row_count" \in DOMAIN answer.result
                          THEN answer.result.row_count ELSE Len(rows)
         IN  [columns |-> "columns", rows |-> rows, row_count |-> row_count,
              truncated |-> row_count > 15, using_user_token |-> is_user_token]
    ELSE IF answer.state = "FAILED"
    THEN [error |-> <<"error_msg">>]
    ELSE [error |-> <<"Query status: ", answer.state, ". Warehouse may be starting.">>]

\* One request to Databricks and the answer it got.
Request(api, text, token, answer) ==
    [api |-> api, statement |-> text, token |-> token, answer |-> answer]

\* The body of the gateway's execute_sql(q), lines 594-678
GatewayExecuteSql(q) ==
    LET plan == ExecuteSqlPlan(q, None)
    IN  IF ~plan.send
        THEN /\ returned' = [error |-> <<plan.refusal>>]
             /\ outbound' = outbound
        ELSE \E answer \in WarehouseAnswers :
                /\ outbound' = Append(outbound,
                                      Request("sql/statements", q, plan.token, answer))
                /\ returned' = ExecuteSqlResult(answer, plan.is_user_token)

\* dispatch_tool -> execute_sql(args.get("query", "")), line 929
execute_sql ==
    /\ tool = "execute_sql"
    /\ returned = Pending
    /\ GatewayExecuteSql(query)
    /\ UNCHANGED <<investigation, formatting, process, transport, tool, query, headers, config>>

\* The body of the gateway's get_table_schema(table_name), lines 747-763
GatewayGetTableSchema(table_name) ==
    IF str_count(table_name, ".") # 2
    THEN /\ returned' = [error |-> <<"Table name must be fully qualified: catalog.schema.table">>]
         /\ outbound' = outbound
    ELSE GatewayExecuteSql(DescribePrefix \o table_name)

\* dispatch_tool -> get_table_schema(args.get("table_name", "")), line 933
get_table_schema ==
    /\ tool = "get_table_schema"
    /\ returned = Pending
    /\ GatewayGetTableSchema(query)
    /\ UNCHANGED <<investigation, formatting, process, transport, tool, query, headers, config>>

\* search_patterns of the gateway from its answer on, lines 716-744
SearchPatternsResult(answer, is_user_token) ==
    IF answer.kind = "raise"
    THEN [error |-> <<"str(e)">>, patterns |-> << >>]
    ELSE IF answer.status = 401
    THEN [error |-> <<"Authentication failed. User token may be expired.">>,
          patterns |-> << >>]
    ELSE IF answer.status = 403
    THEN [error |-> <<"Access denied to Vector Search index.">>, patterns |-> << >>]
    ELSE IF answer.status # 200
    THEN [error |-> <<"Vector Search error: ", "resp.text[:200]">>, patterns |-> << >>]
    ELSE LET results == answer.result.data_array
             patterns == SelectSeq(results, LAMBDA row : row >= 6)
         IN  [patterns |-> patterns, count |-> Len(patterns),
              using_user_token |-> is_user_token]

\* The body of the gateway's search_patterns(q), lines 681-744.  Without a
\* host the URL has no scheme, requests.post raises before it sends
\* anything, and the handler turns the exception into an error.
GatewaySearchPatterns(q) ==
    IF config.VS_INDEX = ""
    THEN /\ returned' = [error |-> <<"Vector Search not configured">>, patterns |-> << >>]
         /\ outbound' = outbound
    ELSE IF get_user_token.token = ""
    THEN /\ returned' = [error |-> <<"No Databricks token available. User must authenticate.">>,
                         patterns |-> << >>]
         /\ outbound' = outbound
    ELSE IF config.DATABRICKS_HOST = ""
    THEN /\ returned' = [error |-> <<"str(e)">>, patterns |-> << >>]
         /\ outbound' = outbound
    ELSE \E answer \in IndexAnswers :
            /\ outbound' = Append(outbound,
                                  Request("vector-search", q, get_user_token.token, answer))
            /\ returned' = SearchPatternsResult(answer, get_user_token.is_user_token)

\* dispatch_tool -> search_patterns(args.get("query", "")), line 931
search_patterns ==
    /\ tool = "search_patterns"
    /\ returned = Pending
    /\ GatewaySearchPatterns(query)
    /\ UNCHANGED <<investigation, formatting, process, transport, tool, query, headers, config>>

\* What an agent tool returns is a str: its fixed pieces, the lines of the
\* table's body, and the footer.
ToolText(pieces) == [text |-> pieces, body_lines |-> << >>, footer |-> << >>]
Table(rows, footer) ==
    [text |-> <<"fence", "header", "sep", "body", "fence">>, body_lines |-> rows,
     footer |-> footer]

\* execute_sql of the chat app from its answer on, lines 592-612
UiExecuteSqlResult(answer) ==
    IF answer.kind = "raise" \/ answer.kind = "unparsable"
    THEN ToolText(<<"Error: ", "str(e)">>)
    ELSE IF answer.status # 200
    THEN ToolText(<<"SQL Error: ", "resp.text[:200]">>)
    ELSE IF answer.state = "SUCCEEDED"
    THEN IF answer.result.data_array # << >>
         THEN Table(Slice(answer.result.data_array, 15), << >>)
         ELSE ToolText(<<"Query returned no results.">>)
    ELSE ToolText(<<"Query error: ", "error">>)

\* execute_sql of the chat app, lines 580-612: the statement goes out as it came
ui_execute_sql ==
    /\ tool = "ui_app.execute_sql"
    /\ returned = Pending
    /\ \E answer \in WarehouseAnswers :
        /\ outbound' = Append(outbound,
                              Request("sql/statements", query,
                                      config.DATABRICKS_TOKEN, answer))
        /\ returned' = UiExecuteSqlResult(answer)
    /\ UNCHANGED <<investigation, formatting, process, transport, tool, query, headers, config>>

\* execute_sql of the LangGraph app from its answer on, lines 317-358
ToolsExecuteSqlResult(answer) ==
    IF answer.kind = "raise"
    THEN IF answer.exception = "Timeout"
         THEN ToolText(<<"Query timed out after ", "SQL_TIMEOUT", " seconds.">>)
         ELSE ToolText(<<"SQL execution error: ", "str(e)">>)
    ELSE IF answer.status # 200
    THEN ToolText(<<"SQL Error (status ", "resp.status_code", "): ", "resp.text[:200]">>)
    ELSE IF answer.kind = "unparsable"
    THEN ToolText(<<"SQL execution error: ", "str(e)">>)
    ELSE IF answer.state = "SUCCEEDED"
    THEN LET rows == Slice(answer.result.data_array, MAX_ROWS)
             total_count == IF "row_count" \in DOMAIN answer.result
                            THEN answer.result.row_count ELSE Len(rows)
         IN  IF rows = << >>
             THEN ToolText(<<"Query executed successfully but returned no results.">>)
             ELSE Table(rows, IF total_count > MAX_ROWS
                              THEN <<"*Showing ", Len(rows), " of ", total_count, " rows*">>
                              ELSE << >>)
    ELSE IF answer.state = "FAILED"
    THEN ToolText(<<"Query error: ", "error_msg">>)
    ELSE ToolText(<<"Query status: ", answer.state, ".">>)

\* execute_sql of the LangGraph app, lines 269-358
tools_execute_sql ==
    /\ tool = "langgraph_app.execute_sql"
    /\ returned = Pending
    /\ IF ~\E prefix \in allowed_prefixes : startswith(query_upper(query), prefix)
       THEN /\ returned' = ToolText(<<"Error: Only SELECT, DESCRIBE, and SHOW queries are allowed for safety.">>)
            /\ outbound' = outbound
       ELSE IF \E kw \in tools_dangerous_keywords : str_in(kw, query_upper(query))
       THEN /\ returned' = ToolText(<<"Error: Only read-only SELECT queries are allowed.">>)
            /\ outbound' = outbound
       ELSE \E answer \in WarehouseAnswers :
                /\ outbound' = Append(outbound,
                                      Request("sql/statements", query,
                                              config.DATABRICKS_TOKEN, answer))
                /\ returned' = ToolsExecuteSqlResult(answer)
    /\ UNCHANGED <<investigation, formatting, process, transport, tool, query, headers, config>>

-----------------------------------------------------------------------------
(***************************************************************************)
(* The MCP servers.                                                        *)
(*                                                                         *)
(*   mcp_endpoint, dispatch_tool, search_code, get_file, list_sql_files    *)
(*                        src/datascope-mcp-server/app.py                  *)
(*   MCPHandler.do_POST, handle_mcp_request, tool_search_code,             *)
(*   tool_get_file, tool_list_sql_files                                    *)
(*                        src/github-mcp-app/mcp_server.py                 *)
(*                                                                         *)
(* One behaviour of McpSpec is one POST /mcp: McpInit draws the server,    *)
(* the body of the request and whether GitHub can be reached; the action   *)
(* of the server handles the request, the tool call it holds included.     *)
(***************************************************************************)

\* JSON values of a request: a member that is left out, a string, a number,
\* an object (a function from its keys to JSON values).
JsonAbsent == [type |-> "absent"]
JsonString(text) == [type |-> "string", text |-> text]
JsonNumber == [type |-> "number"]
JsonObject(fields) == [type |-> "object", fields |-> fields]
EmptyObject == JsonObject([key \in {} |-> JsonAbsent])

\* obj.get(key, default); raises AttributeError when obj is no dict
GetRaises(obj) == obj.type # "object"
json_get(obj, key, default) ==
    IF key \in DOMAIN obj.fields /\ obj.fields[key].type # "absent"
    THEN obj.fields[key] ELSE default

\* The characters of the strings the SQL tools are called with.
characters(text) ==
    CASE text = "SELECT * FROM t" -> SelectAll
      [] text = "DROP TABLE t" -> DropTable
      [] text = "novatech.gold.orders" -> QualifiedName
      [] text = "orders" -> BareName
      [] OTHER -> << >>

\* The arguments objects of the tools/call requests.
ArgumentFields ==
    {[key \in {} |-> JsonAbsent],
     [query |-> JsonString("SELECT * FROM t")],
     [query |-> JsonString("DROP TABLE t")],
     [query |-> JsonString("orders")],
     [query |-> JsonNumber],
     [table_name |-> JsonString("novatech.gold.orders")],
     [table_name |-> JsonString("orders")],
     [file_path |-> JsonString("sql/a.sql")],
     [file_path |-> JsonString("sql/missing.sql")],
     [directory |-> JsonString("nope")]}
Arguments ==
    {JsonAbsent, JsonString("not an object")} \cup {JsonObject(f) : f \in ArgumentFields}

valid_tools == {"execute_sql", "search_patterns", "get_table_schema",
                "search_code", "get_file", "list_sql_files"}
TOOL_HANDLERS == {"search_code", "get_file", "list_sql_files"}
RequestedNames == {JsonAbsent} \cup {JsonString(n) : n \in valid_tools \cup {"no_such_tool"}}

CallParams ==
    {JsonAbsent, JsonString("not an object")}
      \cup {JsonObject([name |-> n, arguments |-> a]) : n \in RequestedNames, a \in Arguments}
Methods == {"", "initialize", "notifications/initialized", "tools/list", "tools/call",
            "resources/list"}

\* The bodies of the requests: no JSON, an empty object, an array, or an
\* object with the members id, method and params.
Requests ==
    {[kind |-> k] : k \in {"invalid", "empty", "array"}}
      \cup {[kind |-> "object", id |-> i, method |-> m, params |-> p] :
                i \in {None, "1"}, m \in Methods \ {"tools/call"},
                p \in {JsonAbsent, JsonString("not an object")}}
      \cup {[kind |-> "object", id |-> i, method |-> "tools/call", params |-> p] :
                i \in {None, "1"}, p \in CallParams}

\* The repository on GitHub: its directories with their items, its files.
RepoDirs ==
    [sql |-> {[type |-> "dir", name |-> "gold", path |-> "sql/gold"],
              [type |-> "file", name |-> "a.sql", path |-> "sql/a.sql"],
              [type |-> "file", name |-> "README.md", path |-> "sql/README.md"]}]
      @@ ("sql/gold" :> {[type |-> "file", name |-> "b.sql", path |-> "sql/gold/b.sql"]})
RepoFiles == {"sql/a.sql", "sql/README.md", "sql/gold/b.sql"}

\* name.endswith(".sql")
EndsWithSql(name) == name \in {"a.sql", "b.sql"}

\* query.lower() in line.lower(), for some line of the file
FileHolds(path, text) == text = "orders" /\ path = "sql/a.sql"

\* requests.get of .../contents/{path}
github_contents(path) ==
    IF github = "unreachable" THEN [kind |-> "raise", status |-> 0, json |-> "none"]
    ELSE IF path \in DOMAIN RepoDirs THEN [kind |-> "reply", status |-> 200, json |-> "list"]
    ELSE IF path \in RepoFiles THEN [kind |-> "reply", status |-> 200, json |-> "dict"]
    ELSE [kind |-> "reply", status |-> 404, json |-> "dict"]

\* The text of a path or of a search term inside an f-string.
Formatted(v) == IF v.type = "string" THEN v.text ELSE "1"

Raised(exception) == [raised |-> exception]
ToolRaised_Never(value) == FALSE
ToolRaised(value) == "raised" \in DOMAIN value

(* The GitHub tools of datascope-mcp-server *)

\* search_code, lines 769-821
search_code(q) ==
    IF github = "unreachable"
    THEN [error |-> <<"str(e)">>, files_matched |-> 0, results |-> {}]
    ELSE LET items == {f \in RepoFiles : FileHolds(f, Formatted(q))}
         IN  [files_searched |-> Cardinality(items), files_matched |-> Cardinality(items),
              results |-> items]

\* get_file, lines 824-856
get_file(file_path) ==
    LET resp == github_contents(Formatted(file_path))
    IN  IF resp.kind = "raise" THEN [error |-> <<"str(e)">>]
        ELSE IF resp.status = 404 THEN [error |-> <<"File not found: ", Formatted(file_path)>>]
        ELSE IF resp.status # 200 THEN [error |-> <<"GitHub API error (", "resp.status_code", ")">>]
        ELSE IF resp.json = "list" THEN [error |-> <<"str(e)">>]
        ELSE [file_path |-> Formatted(file_path), content |-> "content",
              line_count |-> 1, html_url |-> "html_url", sha |-> "sha"]

\* list_sql_files, lines 859-907
RECURSIVE list_sql_files(_)
list_sql_files(directory) ==
    LET resp == github_contents(directory)
    IN  IF resp.kind = "raise" THEN [error |-> <<"str(e)">>, files_by_directory |-> {}]
        ELSE IF resp.status = 404
        THEN [error |-> <<"Directory not found: ", directory>>, files_by_directory |-> {}]
        ELSE IF resp.status # 200
        THEN [error |-> <<"GitHub API error (", "resp.status_code", ")">>,
              files_by_directory |-> {}]
        ELSE IF resp.json # "list"
        THEN [error |-> <<"Unexpected response format">>, files_by_directory |-> {}]
        ELSE LET items == RepoDirs[directory]
                 here == {<<directory, i.name>> : i \in {f \in items : f.type = "file"
                                                                       /\ EndsWithSql(f.name)}}
                 below == UNION {list_sql_files(d.path).files_by_directory :
                                    d \in {f \in items : f.type = "dir"}}
             IN  [total_files |-> Cardinality(here \cup below),
                  files_by_directory |-> here \cup below]

(* The tools of github-mcp-app *)

\* get_all_sql_files, lines 112-135: an exception or a status other than 200
\* ends the listing with what was found so far
RECURSIVE get_all_sql_files(_)
get_all_sql_files(path) ==
    LET resp == github_contents(path)
    IN  IF resp.kind = "raise" \/ resp.status # 200 \/ resp.json # "list" THEN {}
        ELSE LET items == RepoDirs[path]
             IN  {f.path : f \in {i \in items : i.type = "file" /\ EndsWithSql(i.name)}}
                   \cup UNION {get_all_sql_files(d.path) : d \in {i \in items : i.type = "dir"}}

\* tool_search_code, lines 149-191
tool_search_code(q) ==
    LET all_files == get_all_sql_files("sql")
    IN  IF q.type # "string" /\ all_files # {} THEN Raised("AttributeError")
        ELSE LET results == {f \in all_files : FileHolds(f, Formatted(q))}
             IN  [query |-> Formatted(q), repository |-> "REPO",
                  files_searched |-> Cardinality(all_files),
                  files_matched |-> Cardinality(results), results |-> results]

\* tool_get_file, lines 194-211
tool_get_file(file_path) ==
    LET resp == github_contents(Formatted(file_path))
    IN  IF resp.kind = "raise" THEN Raised("ConnectionError")
        ELSE IF resp.status # 200 THEN [error |-> <<"File not found: ", Formatted(file_path)>>]
        ELSE IF resp.json = "list" THEN Raised("AttributeError")
        ELSE [path |-> Formatted(file_path), content |-> "content", line_count |-> 1,
              html_url |-> "html_url"]

\* tool_list_sql_files, lines 214-230
tool_list_sql_files(directory) ==
    LET all_files == get_all_sql_files(Formatted(directory))
    IN  [repository |-> "REPO", total_files |-> Cardinality(all_files),
         files_by_directory |-> all_files]

\* handler(**tool_args), line 287: the keywords have to fit the parameters
KeywordsFit(args, required, optional) ==
    /\ args.type = "object"
    /\ required \subseteq DOMAIN args.fields
    /\ DOMAIN args.fields \subseteq required \cup optional

CallHandler(tool_name, args) ==
    CASE tool_name = "search_code" ->
           IF KeywordsFit(args, {"query"}, {"file_extension"})
           THEN tool_search_code(args.fields["query"]) ELSE Raised("TypeError")
      [] tool_name = "get_file" ->
           IF KeywordsFit(args, {"file_path"}, {})
           THEN tool_get_file(args.fields["file_path"]) ELSE Raised("TypeError")
      [] tool_name = "list_sql_files" ->
           IF KeywordsFit(args, {}, {"directory"})
           THEN tool_list_sql_files(json_get(args, "directory", JsonString("sql")))
           ELSE Raised("TypeError")

(* The replies *)

HttpReply(status, body) == [status |-> status, body |-> body]
NoBody == [key \in {} |-> ""]
JsonRpcResult(id, value) == [jsonrpc |-> "2.0", id |-> id, result |-> value]
JsonRpcError(id, code, message) ==
    [jsonrpc |-> "2.0", id |-> id, error |-> [code |-> code, message |-> message]]

\* mcp_response and mcp_error, lines 515-530, and tool_result, lines 533-542
mcp_response(request_id, value) == HttpReply(200, JsonRpcResult(request_id, value))
mcp_error(request_id, code, message) ==
    HttpReply(200, JsonRpcError(request_id, code, message))
tool_result(data) == [content |-> <<[type |-> "text", text |-> data]>>]

InitializeResult == [protocolVersion |-> "MCP_VERSION", serverInfo |-> "SERVER_INFO"]

METHOD_NOT_FOUND == 0 - 32601
INTERNAL_ERROR == 0 - 32603
PARSE_ERROR == 0 - 32700

\* dispatch_tool, lines 912-943, for a tool of valid_tools; args is an object
dispatch_tool(tool_name, args) ==
    CASE tool_name = "execute_sql" ->
           LET q == json_get(args, "query", JsonString(""))
           IN  IF q.type = "string" THEN GatewayExecuteSql(characters(q.text))
               ELSE /\ returned' = (IF PreparePlan(None).send THEN Raised("AttributeError")
                                    ELSE [error |-> <<PreparePlan(None).refusal>>])
                    /\ outbound' = outbound
      [] tool_name = "search_patterns" ->
           GatewaySearchPatterns(characters(Formatted(json_get(args, "query", JsonString("")))))
      [] tool_name = "get_table_schema" ->
           GatewayGetTableSchema(characters(Formatted(json_get(args, "table_name",
                                                               JsonString("")))))
      [] tool_name = "search_code" ->
           /\ returned' = search_code(json_get(args, "query", JsonString("")))
           /\ outbound' = outbound
      [] tool_name = "get_file" ->
           /\ returned' = get_file(json_get(args, "file_path", JsonString("")))
           /\ outbound' = outbound
      [] tool_name = "list_sql_files" ->
           /\ returned' = list_sql_files(Formatted(json_get(args, "directory",
                                                            JsonString("sql"))))
           /\ outbound' = outbound

InternalError == mcp_error(None, INTERNAL_ERROR, <<"Internal error: ", "str(e)">>)

\* The tool call of a request gets as far as dispatch_tool's handler.
Dispatches(req) ==
    /\ req.kind = "object"
    /\ req.method = "tools/call"
    /\ ~GetRaises(req.params)
    /\ json_get(req.params, "name", JsonString("")).type = "string"
    /\ json_get(req.params, "name", JsonString("")).text \in valid_tools
    /\ ~GetRaises(json_get(req.params, "arguments", EmptyObject))

\* mcp_endpoint, lines 961-1051, for the requests that call no tool handler
EndpointAnswer(req) ==
    CASE req.kind = "invalid" -> InternalError
      [] req.kind = "empty" -> mcp_error(None, PARSE_ERROR, <<"Parse error: Invalid JSON">>)
      [] req.kind = "array" -> InternalError
      [] req.kind = "object" /\ req.method = "initialize" ->
           IF req.params.type = "absent" THEN mcp_response(req.id, InitializeResult)
           ELSE InternalError
      [] req.kind = "object" /\ req.method = "notifications/initialized" ->
           mcp_response(req.id, NoBody)
      [] req.kind = "object" /\ req.method = "tools/list" ->
           mcp_response(req.id, [tools |-> "TOOLS"])
      [] req.kind = "object" /\ req.method = "tools/call" ->
           IF req.params.type = "absent"
           THEN mcp_error(req.id, METHOD_NOT_FOUND, <<"Unknown tool: ", "">>)
           ELSE IF GetRaises(req.params) THEN InternalError
           ELSE IF json_get(req.params, "name", JsonString("")).type # "string"
                   \/ json_get(req.params, "name", JsonString("")).text \notin valid_tools
           THEN mcp_error(req.id, METHOD_NOT_FOUND, <<"Unknown tool: ", "tool_name">>)
           ELSE InternalError
      [] OTHER -> mcp_error(req.id, METHOD_NOT_FOUND, <<"Unknown method: ", req.method>>)

\* mcp_endpoint of datascope-mcp-server, lines 950-1051, for a request that
\* passed require_auth
mcp_endpoint ==
    /\ server = "datascope-mcp-server"
    /\ reply = Pending
    /\ IF ~Dispatches(request)
       THEN /\ UNCHANGED <<outbound, returned>>
            /\ reply' = EndpointAnswer(request)
       ELSE /\ dispatch_tool(json_get(request.params, "name", JsonString("")).text,
                             json_get(request.params, "arguments", EmptyObject))
            /\ reply' = (IF ToolRaised(returned') THEN InternalError
                         ELSE mcp_response(request.id, tool_result(returned')))
    /\ UNCHANGED <<investigation, formatting, process, server, request, github, tool, query, headers, config>>

\* handle_mcp_request of github-mcp-app, lines 241-332, for a request that
\* is an object: the response, or NoBody for None
handle_mcp_request(method, req_id, params) ==
    CASE method = "initialize" -> JsonRpcResult(req_id, InitializeResult)
      [] method = "tools/list" -> JsonRpcResult(req_id, [tools |-> "TOOLS"])
      [] method = "tools/call" ->
           IF GetRaises(params)
           THEN JsonRpcError(req_id, INTERNAL_ERROR, <<"str(e)">>)
           ELSE LET tool_name == json_get(params, "name", JsonString(""))
                    tool_args == json_get(params, "arguments", EmptyObject)
                IN  IF tool_name.type # "string" \/ tool_name.text \notin TOOL_HANDLERS
                    THEN JsonRpcError(req_id, METHOD_NOT_FOUND,
                                      <<"Unknown tool: ", "tool_name">>)
                    ELSE LET outcome == CallHandler(tool_name.text, tool_args)
                         IN  IF ToolRaised(outcome)
                             THEN JsonRpcError(req_id, INTERNAL_ERROR, <<"str(e)">>)
                             ELSE JsonRpcResult(req_id, tool_result(outcome))
      [] method = "notifications/initialized" -> NoBody
      [] OTHER -> JsonRpcError(req_id, METHOD_NOT_FOUND, <<"Method not found: ", method>>)

\* The value the tool handler of the request gave, when one was called.
HandlerOutcome ==
    IF /\ request.kind = "object"
       /\ request.method = "tools/call"
       /\ ~GetRaises(request.params)
       /\ json_get(request.params, "name", JsonString("")).type = "string"
       /\ json_get(request.params, "name", JsonString("")).text \in TOOL_HANDLERS
    THEN CallHandler(json_get(request.params, "name", JsonString("")).text,
                     json_get(request.params, "arguments", EmptyObject))
    ELSE returned

\* MCPHandler.do_POST of github-mcp-app on the path /mcp, lines 374-408
do_POST ==
    /\ server = "github-mcp-app"
    /\ reply = Pending
    /\ returned' = HandlerOutcome
    /\ reply' =
         (CASE request.kind = "invalid" -> HttpReply(400, [error |-> <<"Invalid JSON: ", "e">>])
            [] request.kind = "array" -> HttpReply(500, [error |-> <<"str(e)">>])
            [] request.kind = "empty" ->
                 HttpReply(200, handle_mcp_request("", None, EmptyObject))
            [] OTHER ->
                 LET response == handle_mcp_request(request.method, request.id,
                                                    IF request.params.type = "absent"
                                                    THEN EmptyObject ELSE request.params)
                 IN  IF response = NoBody THEN HttpReply(202, NoBody)
                     ELSE HttpReply(200, response))
    /\ UNCHANGED <<investigation, formatting, process, server, request, github, tool, query, headers, config,
                   outbound>>

\* No request is under way at an MCP server.
-----------------------------------------------------------------------------
(***************************************************************************)
(* SQLResult.to_markdown, src/src/datascope/tools/sql_tool.py lines 12-46  *)
(*                                                                         *)
(* One behaviour of MarkdownSpec is one call: MarkdownInit draws the       *)
(* SQLResult, the action formats it.                                       *)
(***************************************************************************)

\* Rows of a SQLResult, at most.
MaxResultRows == 21

\* rows[:20]
DISPLAY_ROWS == 20

\* The values of a row: a str, an int, or None.
StrValue(v) == [type |-> "str", v |-> v]
IntValue(n) == [type |-> "int", n |-> n]
NoneValue == [type |-> "NoneType"]

\* str(value)
str(value) ==
    CASE value.type = "str" -> value.v
      [] value.type = "int" -> ToString(value.n)
      [] value.type = "NoneType" -> "None"

\* row.get(col, "")
row_get(row, col) == IF col \in DOMAIN row THEN row[col] ELSE StrValue("")

\* " | ".join(texts)
RECURSIVE join_cells(_)
join_cells(texts) ==
    IF texts = << >> THEN ""
    ELSE IF Len(texts) = 1 THEN texts[1]
    ELSE texts[1] \o " | " \o join_cells(Tail(texts))

\* "\n".join(lines)
RECURSIVE join_lines(_)
join_lines(lines) ==
    IF lines = << >> THEN ""
    ELSE IF Len(lines) = 1 THEN lines[1]
    ELSE lines[1] \o "\n" \o join_lines(Tail(lines))

\* The i-th row of a result: a name and a value, or a name alone.
ResultRow(i, shape) ==
    IF shape = "name and value"
    THEN [c \in {"name", "value"} |->
             IF c = "name" THEN StrValue("r" \o ToString(i)) ELSE IntValue(i)]
    ELSE [c \in {"name"} |-> IF i = 2 THEN NoneValue ELSE StrValue("r" \o ToString(i))]

\* The SQLResult objects to_markdown is called on; `error` is an
\* Optional[str], and row_count is a field of its own.
SQLResults ==
    { [error |-> e, columns |-> cols, rows |-> [i \in 1..n |-> ResultRow(i, shape)],
       row_count |-> n + extra] :
        e \in {None, "", "Table not found"},
        cols \in {<< >>, <<"name">>, <<"name", "value">>},
        n \in 0..MaxResultRows,
        shape \in {"name and value", "name alone"},
        extra \in {0, 100} }

\* `if self.error:` on an Optional[str]
ErrorIsTruthy(error) == error # None /\ Truthy(error)

\* lines 22-46
to_markdown(r) ==
    IF ErrorIsTruthy(r.error)
    THEN "**Error:** " \o r.error
    ELSE IF r.rows = << >>
    THEN "_No results_"
    ELSE LET header == "| " \o join_cells(r.columns) \o " |"
             separator == "| " \o join_cells([i \in DOMAIN r.columns |-> "---"]) \o " |"
             display_rows == SubSeq(r.rows, 1, IF Len(r.rows) < DISPLAY_ROWS THEN Len(r.rows)
                                               ELSE DISPLAY_ROWS)
             row_lines == [i \in DOMAIN display_rows |->
                              "| " \o join_cells([j \in DOMAIN r.columns |->
                                                    str(row_get(display_rows[i], r.columns[j]))])
                                   \o " |"]
             table == join_lines(<<header, separator>> \o row_lines)
         IN  IF Len(r.rows) > DISPLAY_ROWS
             THEN table \o "\n\n_Showing 20 of " \o ToString(r.row_count) \o " rows_"
             ELSE table

\* what a call returned
Returns(text) == [text |-> text]

\* result.to_markdown()
format_result ==
    /\ markdown = Pending
    /\ sql_result \in SQLResults
    /\ markdown' = Returns(to_markdown(sql_result))
    /\ UNCHANGED <<investigation, serving, process, sql_result>>

\* No SQLResult is being formatted.
NoFormatting ==
    /\ sql_result = [error |-> None, columns |-> << >>, rows |-> << >>, row_count |-> 0]
    /\ markdown = Pending

NoRequest ==
    /\ server = None
    /\ request = [kind |-> "none"]
    /\ github = "up"
    /\ reply = Pending

\* _agent = None, agent/graph.py line 29: no agent is cached
NoAgent == [object |-> 0]

\* self._tools_cache = None, tools.py line 53
NoTools == [cached |-> FALSE]

\* The servers have just started: the clock at 0, the caches as the modules
\* initialise them, no MCPClient request sent.
NoProcess ==
    /\ now = 0
    /\ _oauth_token = None
    /\ _oauth_token_expiry = 0
    /\ token_calls = << >>
    /\ _agent = NoAgent
    /\ invocations = << >>
    /\ _token_cache = << >>
    /\ threads = << >>
    /\ client = [_initialized |-> FALSE, _tools_cache |-> NoTools]
    /\ mcp_requests = << >>

\* No tool call is under way: the state of these variables in an investigation.
NoToolCall ==
    /\ tool = None
    /\ query = << >>
    /\ headers = NoHeaders
    /\ config = AgentConfig
    /\ outbound = << >>
    /\ returned = Pending
    /\ NoRequest

-----------------------------------------------------------------------------

\* The state before the entry point runs.  chat_with_llm is called for a new
\* conversation (no conversation_id, nothing stored; the question is the
\* value of the request body, a str or not) or for a follow-up (a
\* conversation_id with the summary Lakebase holds for it); investigate is
\* called with a question.
Init ==
    /\ entry \in {"chat_with_llm", "investigate"}
    /\ pc = (IF entry = "chat_with_llm" THEN "start" ELSE "classify")
    /\ \E cid \in (IF entry = "chat_with_llm" THEN {None, "conv-1"} ELSE {None}) :
        /\ conversation_id = cid
        /\ question \in (IF entry = "chat_with_llm" /\ cid = None
                          THEN {AStr, NotAStr} ELSE {AStr})
        /\ history = (IF cid = None THEN << >>
                      ELSE <<[role |-> "user", content |-> Content("q1", 250)],
                             [role |-> "assistant", content |-> Content("a1", 600)]>>)
        /\ stored_summary = get_conversation_summary(history).text
    /\ messages = << >>
    /\ iteration = 0
    /\ tool_results_collected = << >>
    /\ llm_requests = << >>
    /\ responses = << >>
    /\ executed = << >>
    /\ saved = << >>
    /\ result = NoResult
    /\ raised = FALSE
    /\ state = create_initial_state(AStr)
    /\ passes = 0
    /\ conversations = << >>
    /\ generated = 0
    /\ lakebase = "up"
    /\ NoToolCall
    /\ NoFormatting
    /\ NoProcess

Next ==
    \/ Begin
    \/ Gather
    \/ Finalize
    \/ classify
    \/ retrieve
    \/ investigate
    \/ analyze
    \/ synthesize

Spec == Init /\ [][Next]_vars

-----------------------------------------------------------------------------

\* No investigation is under way: the state of its variables in a tool call.
NoInvestigation ==
    /\ entry = None
    /\ pc = "idle"
    /\ conversation_id = None
    /\ question = AStr
    /\ stored_summary = ""
    /\ history = << >>
    /\ messages = << >>
    /\ iteration = 0
    /\ tool_results_collected = << >>
    /\ llm_requests = << >>
    /\ responses = << >>
    /\ executed = << >>
    /\ saved = << >>
    /\ result = NoResult
    /\ raised = FALSE
    /\ state = create_initial_state(AStr)
    /\ passes = 0
    /\ conversations = << >>
    /\ generated = 0
    /\ lakebase = "up"

\* The state before a SQL tool runs: the gateway's tools are called through
\* a request that carries the caller's token, a blank one or none, with the
\* configuration the gateway started with; the agents' tools are called by
\* the agent with the statement the LLM asked for.
SqlInit ==
    /\ NoInvestigation
    /\ NoFormatting
    /\ NoProcess
    /\ tool \in GatewayTools \cup AgentTools
    /\ query \in (CASE tool = "get_table_schema" -> TableNames
                    [] tool = "search_patterns" -> IssueTexts
                    [] OTHER -> Statements)
    /\ IF tool \in GatewayTools
       THEN \/ config \in Configured /\ headers \in Headers
            \/ config \in HalfConfigured /\ headers = UserHeader
       ELSE config = AgentConfig /\ headers = NoHeaders
    /\ outbound = << >>
    /\ returned = Pending
    /\ NoRequest

SqlNext ==
    \/ execute_sql
    \/ get_table_schema
    \/ search_patterns
    \/ ui_execute_sql
    \/ tools_execute_sql

SqlSpec == SqlInit /\ [][SqlNext]_vars

\* The state before an MCP server handles a request.
McpInit ==
    /\ NoInvestigation
    /\ NoFormatting
    /\ NoProcess
    /\ server \in {"datascope-mcp-server", "github-mcp-app"}
    /\ request \in Requests
    /\ github \in {"up", "unreachable"}
    /\ reply = Pending
    /\ tool = None
    /\ query = << >>
    /\ IF server = "datascope-mcp-server"
       THEN config \in Configured /\ headers \in {NoHeaders, UserHeader}
       ELSE config = AgentConfig /\ headers = NoHeaders
    /\ outbound = << >>
    /\ returned = Pending

McpNext ==
    \/ mcp_endpoint
    \/ do_POST

McpSpec == McpInit /\ [][McpNext]_vars

-----------------------------------------------------------------------------

\* The state before chat_with_llm runs for a follow-up: the conversation has
\* the rows of its earlier turns, and get_conversation_summary gives their
\* summary, or "" when Lakebase is disabled or its query fails (lines
\* 169-170 and 182-184, 210-212).
FollowUpInit ==
    /\ entry = "chat_with_llm"
    /\ pc = "start"
    /\ conversation_id = "conv-1"
    /\ question = AStr
    /\ history \in Histories(MaxTurns)
    /\ stored_summary \in {get_conversation_summary(history).text, ""}
    /\ messages = << >>
    /\ iteration = 0
    /\ tool_results_collected = << >>
    /\ llm_requests = << >>
    /\ responses = << >>
    /\ executed = << >>
    /\ saved = << >>
    /\ result = NoResult
    /\ raised = FALSE
    /\ state = create_initial_state(AStr)
    /\ passes = 0
    /\ conversations = << >>
    /\ generated = 0
    /\ lakebase = "up"
    /\ NoToolCall
    /\ NoFormatting
    /\ NoProcess

\* The first pass of the loop: the first LLM request and what follows its answer.
FirstRequest == llm_requests = << >> /\ Gather

FollowUpNext ==
    \/ Begin
    \/ FirstRequest

FollowUpSpec == FollowUpInit /\ [][FollowUpNext]_vars

-----------------------------------------------------------------------------

\* The questions investigate is called with.
Questions == {AStr, "Why is X broken?", "Why are the totals off?", ""}

\* The state before investigate(question) has made the workflow's state.
InvestigateInit ==
    /\ entry = "investigate"
    /\ pc = "start"
    /\ question \in Questions
    /\ state = Pending
    /\ conversation_id = None
    /\ history = << >>
    /\ stored_summary = ""
    /\ messages = << >>
    /\ iteration = 0
    /\ tool_results_collected = << >>
    /\ llm_requests = << >>
    /\ responses = << >>
    /\ executed = << >>
    /\ saved = << >>
    /\ result = NoResult
    /\ raised = FALSE
    /\ passes = 0
    /\ conversations = << >>
    /\ generated = 0
    /\ lakebase = "up"
    /\ NoToolCall
    /\ NoFormatting
    /\ NoProcess

InvestigateNext ==
    \/ start_investigation
    \/ classify
    \/ retrieve
    \/ investigate

InvestigateSpec == InvestigateInit /\ [][InvestigateNext]_vars

-----------------------------------------------------------------------------

MarkdownInit ==
    /\ NoInvestigation
    /\ NoToolCall
    /\ sql_result \in SQLResults
    /\ markdown = Pending
    /\ NoProcess

MarkdownNext == format_result

MarkdownSpec == MarkdownInit /\ [][MarkdownNext]_vars

-----------------------------------------------------------------------------

\* Departure from the plain case that is followed while the store fails or
\* the endpoint is silent.
PlainVariation == 1

\* The state before chat_with_llm runs against a Lakebase that may fail: a
\* new conversation, or a follow-up whose question is any JSON value.
PersistInit ==
    /\ entry = "chat_with_llm"
    /\ pc = "start"
    /\ lakebase \in StoreConditions
    /\ \/ conversation_id = None /\ question = AStr
       \/ conversation_id = "conv-1" /\ question \in {AStr, NotAStr}
    /\ history = << >>
    /\ stored_summary = ""
    /\ messages = << >>
    /\ iteration = 0
    /\ tool_results_collected = << >>
    /\ llm_requests = << >>
    /\ responses = << >>
    /\ executed = << >>
    /\ saved = << >>
    /\ result = NoResult
    /\ raised = FALSE
    /\ state = create_initial_state(AStr)
    /\ passes = 0
    /\ conversations = << >>
    /\ generated = 0
    /\ NoToolCall
    /\ NoFormatting
    /\ NoProcess

\* One pass of the loop, in a run that stays within PlainVariation.
PlainGather == Gather /\ Variation(responses', 1) <= PlainVariation

PersistNext ==
    \/ Begin
    \/ PlainGather
    \/ Finalize

PersistSpec == PersistInit /\ [][PersistNext]_vars

-----------------------------------------------------------------------------

\* chat_with_llm for a new conversation, against an LLM endpoint that may
\* stop answering at any request.
SilentInit ==
    /\ Init
    /\ entry = "chat_with_llm"
    /\ conversation_id = None
    /\ question = AStr

SilentNext ==
    \/ Begin
    \/ PlainGather
    \/ Finalize
    \/ Wait

SilentSpec == SilentInit /\ [][SilentNext]_vars

-----------------------------------------------------------------------------
(***************************************************************************)
(* The turns of datascope-ui-app: one behaviour of TurnsSpec is the life   *)
(* of the server, which serves one POST /chat after the other              *)
(* (socketserver.TCPServer, app.py line 1006: no two requests overlap).    *)
(***************************************************************************)

\* Requests to POST /chat that are followed.
MaxRequests == 3

\* The body of the n-th POST /chat: body.get("question", "") and
\* body.get("conversation_id"), lines 985-986
ChatBody(n, q, cid) == [kind |-> "chat", n |-> n, question |-> q, conversation_id |-> cid]

\* What a client may send as conversation_id: nothing (or null), the empty
\* string, an id of its own making, or an id an earlier response carried.
ClientIds == {None, "", "conv-1"} \cup {conversations[i] : i \in DOMAIN conversations}

\* Handler.do_POST of datascope-ui-app on the path /chat, lines 981-991: the
\* body is read and, unless the question is falsy, handed to chat_with_llm,
\* whose steps are Begin, Gather and Finalize; lines 992-995 send what it
\* returned.
ui_do_POST ==
    /\ server = "datascope-ui-app"
    /\ pc \in {"listening", "done", "raised"}
    /\ request.n < MaxRequests
    /\ \E q \in {AStr, NotAStr, ""}, cid \in ClientIds :
        /\ request' = ChatBody(request.n + 1, q, cid)
        /\ question' = q
        /\ conversation_id' = cid
        /\ IF q = ""
           THEN /\ pc' = "done"
                /\ result' = [error |-> "No question provided"]
                /\ stored_summary' = ""
           ELSE /\ pc' = "start"
                /\ result' = NoResult
                /\ stored_summary' \in
                     (IF NoConversationId(cid) THEN {""}
                      ELSE {"", get_conversation_summary(
                                   <<[role |-> "user", content |-> Content("q1", 250)],
                                     [role |-> "assistant", content |-> Content("a1", 600)]>>).text})
    /\ messages' = << >>
    /\ iteration' = 0
    /\ tool_results_collected' = << >>
    /\ llm_requests' = << >>
    /\ responses' = << >>
    /\ executed' = << >>
    /\ saved' = << >>
    /\ raised' = FALSE
    /\ UNCHANGED <<formatting, process, conversations, generated, lakebase, history, entry,
                   state, passes, server, github, reply, tool, query, headers, config,
                   outbound, returned>>

\* The server has started and no request has come in.
TurnsInit ==
    /\ entry = "chat_with_llm"
    /\ pc = "listening"
    /\ server = "datascope-ui-app"
    /\ request = ChatBody(0, "", None)
    /\ conversation_id = None
    /\ question = AStr
    /\ history = << >>
    /\ stored_summary = ""
    /\ messages = << >>
    /\ iteration = 0
    /\ tool_results_collected = << >>
    /\ llm_requests = << >>
    /\ responses = << >>
    /\ executed = << >>
    /\ saved = << >>
    /\ result = NoResult
    /\ raised = FALSE
    /\ state = create_initial_state(AStr)
    /\ passes = 0
    /\ conversations = << >>
    /\ generated = 0
    /\ lakebase = "up"
    /\ github = "up"
    /\ reply = Pending
    /\ tool = None
    /\ query = << >>
    /\ headers = NoHeaders
    /\ config = AgentConfig
    /\ outbound = << >>
    /\ returned = Pending
    /\ NoFormatting
    /\ NoProcess

TurnsNext ==
    \/ ui_do_POST
    \/ Begin
    \/ PlainGather
    \/ Finalize

TurnsSpec == TurnsInit /\ [][TurnsNext]_vars

-----------------------------------------------------------------------------
(***************************************************************************)
(* datascope-langgraph-app: create_agent and invoke_agent of agent/graph.py*)
(* with the GalileoTracer of agent/observability.py.                       *)
(*                                                                         *)
(* One behaviour of AgentSpec is the life of the server: main builds the   *)
(* agent, then the handlers run one after the other                        *)
(* (socketserver.TCPServer, app.py line 530).  The LLM endpoint, the       *)
(* event loop of the calling thread and what building an agent does are    *)
(* the environment.                                                        *)
(***************************************************************************)

\* Calls of create_agent and invoke_agent that are followed.
MaxInvocations == 3

\* asyncio.get_event_loop() in the calling thread, line 382: it raises
\* RuntimeError (no loop), or gives a loop that is not running, or one that is
Loops == {"none", "idle", "running"}

\* What agent.invoke does with the question.  The graph of create_react_agent
\* is library code; the LLM calls it makes are _generate, lines 96-185: an
\* answer is one call whose span is logged, an endpoint error raises before
\* any span is logged (lines 141-144).
AgentOutcomes == {"answer", "no messages", "raises"}

\* usage.prompt_tokens and usage.completion_tokens of the LLM endpoint's
\* answer, lines 153-155: numbers, absent, or some other JSON value (a string)
Usages == {"numbers", "absent", "text"}

\* InvestigationTrace as GalileoTracer.__init__ makes it, observability.py
\* lines 62-76 and 117-126; completions counts the runs of line 216
NewTrace(n) ==
    [trace_id |-> "trace-" \o ToString(n), llm_spans |-> << >>, user_input |-> "", final_output |-> EmptyText,
     end_time |-> None, completions |-> 0]

\* GalileoTracer.log_llm_call, observability.py lines 128-164
log_llm_call(trace, tokens) == [trace EXCEPT !.llm_spans = Append(@, tokens)]

\* total_input_tokens + total_output_tokens, observability.py lines 93-99 and
\* 227: sum(s.input_tokens or 0 ...) raises TypeError on a string
TokensAddUp(trace) == \A i \in DOMAIN trace.llm_spans : trace.llm_spans[i] # "text"

\* GalileoTracer.complete, observability.py lines 198-239: the fields are set
\* (lines 214-216) before the summary is built (lines 221-228)
complete(trace, user_input, final_output) ==
    [trace |-> [trace EXCEPT !.user_input = user_input,
                             !.final_output = final_output,
                             !.end_time = "time.time()",
                             !.completions = @ + 1],
     raises |-> ~TokensAddUp(trace)]

\* mutant: the agent is cached whatever tracer it carries
create_agent_CacheAll(cached, tracer, n) ==
    IF tracer = None /\ cached # NoAgent
    THEN [agent |-> cached, cache |-> cached, built |-> FALSE]
    ELSE [agent |-> [object |-> n, tracer |-> tracer],
          cache |-> [object |-> n, tracer |-> tracer], built |-> TRUE]

\* create_agent, lines 282-326, when building succeeds: the agent returned,
\* what _agent holds afterwards, and whether an agent was built; n names the
\* object create_react_agent makes
create_agent(cached, tracer, n) ==
    IF tracer = None /\ cached # NoAgent
    THEN [agent |-> cached, cache |-> cached, built |-> FALSE]
    ELSE [agent |-> [object |-> n, tracer |-> tracer],
          cache |-> IF tracer = None THEN [object |-> n, tracer |-> tracer] ELSE cached,
          built |-> TRUE]

ErrorMarker == <<"Error: ", "str(e)">>
InvestigationFailed == <<"Investigation failed: ", "str(e)">>

\* The record of one call of create_agent without a tracer.
AgentCall(fn, made, ok) ==
    [fn |-> fn, tracer |-> None, built |-> made.built /\ ok,
     agent |-> IF ok THEN made.agent ELSE NoAgent, returned |-> ok]

\* main, app.py lines 503-527: create_agent(config) before the server
\* starts; the process exits when it raises
main ==
    /\ invocations = << >>
    /\ \E ok \in BOOLEAN :
        LET made == create_agent(_agent, None, 1)
        IN  /\ _agent' = (IF ok THEN made.cache ELSE _agent)
            /\ invocations' = <<AgentCall("main", made, ok)>>
    /\ UNCHANGED <<investigation, serving, formatting, now, _oauth_token, _oauth_token_expiry,
                   token_calls, _token_cache, threads, client, mcp_requests>>

\* The server is up: main has built the agent.
Serving ==
    /\ invocations # << >>
    /\ invocations[1].fn = "main"
    /\ invocations[1].returned
    /\ Len(invocations) < MaxInvocations + 1

\* do_GET on /health, app.py lines 428-443: create_agent()
health ==
    /\ Serving
    /\ LET made == create_agent(_agent, None, Len(invocations) + 1)
       IN  /\ _agent' = made.cache
           /\ invocations' = Append(invocations, AgentCall("health", made, TRUE))
    /\ UNCHANGED <<investigation, serving, formatting, now, _oauth_token, _oauth_token_expiry,
                   token_calls, _token_cache, threads, client, mcp_requests>>

\* invoke_agent, lines 329-416, as a whole
invoke_agent ==
    /\ Serving
    /\ \E loop \in Loops, outcome \in AgentOutcomes, tokens \in Usages, builds \in BOOLEAN :
        /\ outcome # "answer" => tokens = "absent"
        /\ ~builds => (loop = "none" /\ outcome = "raises")
        /\ LET n == Len(invocations) + 1
               tracer == NewTrace(n)
               made == create_agent(_agent, tracer.trace_id, n)
               \* agent.invoke, lines 360-366
               logged == IF outcome = "answer" THEN log_llm_call(tracer, tokens)
                         ELSE tracer
               response == IF outcome = "answer" THEN <<"final_message.content">>
                           ELSE <<"Investigation completed but no response was generated.">>
               \* lines 379-390
               first == complete(logged, "question", response)
               \* lines 398-408
               onError == complete(IF outcome = "raises" THEN logged ELSE first.trace,
                                   "question", ErrorMarker)
               call == [fn |-> "invoke_agent", tracer |-> tracer.trace_id, built |-> builds,
                        agent |-> made.agent, loop |-> loop, outcome |-> outcome,
                        tokens |-> tokens]
           IN  /\ _agent' = (IF builds THEN made.cache ELSE _agent)
               /\ invocations' = Append(invocations,
                    IF ~builds
                    THEN \* create_agent raises at line 348, which no try encloses
                         call @@ [returned |-> FALSE, response |-> << >>,
                                  at_return |-> tracer, trace |-> tracer, task |-> "none"]
                    ELSE IF outcome = "raises"
                    THEN \* asyncio.run raises RuntimeError under a running loop
                         \* and line 407 swallows it
                         LET t == IF loop = "running" THEN logged ELSE onError.trace
                         IN  call @@ [returned |-> TRUE, response |-> InvestigationFailed,
                                      at_return |-> t, trace |-> t, task |-> "none"]
                    ELSE IF loop = "running"
                    THEN \* line 385: the task is created and not awaited
                         call @@ [returned |-> TRUE, response |-> response,
                                  at_return |-> logged, trace |-> logged,
                                  task |-> "scheduled"]
                    ELSE IF first.raises
                    THEN \* the exception of complete reaches line 398
                         call @@ [returned |-> TRUE, response |-> InvestigationFailed,
                                  at_return |-> onError.trace, trace |-> onError.trace,
                                  task |-> "none"]
                    ELSE call @@ [returned |-> TRUE, response |-> response,
                                  at_return |-> first.trace, trace |-> first.trace,
                                  task |-> "none"])
    /\ UNCHANGED <<investigation, serving, formatting, now, _oauth_token, _oauth_token_expiry,
                   token_calls, _token_cache, threads, client, mcp_requests>>

\* The running loop gets to the task of line 385, after invoke_agent returned.
run_task ==
    /\ \E i \in DOMAIN invocations :
        /\ invocations[i].fn = "invoke_agent"
        /\ invocations[i].task = "scheduled"
        /\ invocations' = [invocations EXCEPT
             ![i].trace = complete(@, "question", invocations[i].response).trace,
             ![i].task = "done"]
    /\ UNCHANGED <<investigation, serving, formatting, now, _oauth_token, _oauth_token_expiry,
                   token_calls, _agent, _token_cache, threads, client, mcp_requests>>

\* The module is imported: _agent = None (line 29), nothing has been called.
AgentInit ==
    /\ NoInvestigation
    /\ NoToolCall
    /\ NoFormatting
    /\ NoProcess

AgentNext ==
    \/ main
    \/ health
    \/ invoke_agent
    \/ run_task

AgentSpec == AgentInit /\ [][AgentNext]_vars

-----------------------------------------------------------------------------
(***************************************************************************)
(* get_oauth_token of datascope-ui-app, app.py lines 24-82.                *)
(*                                                                         *)
(* One behaviour of OAuthSpec is the life of the server: time passes and   *)
(* get_oauth_token is called, one call after the other (the server is a    *)
(* single-threaded socketserver.TCPServer, line 1006).  The token endpoint *)
(* is the environment.                                                     *)
(***************************************************************************)

\* The clock is followed up to this many seconds.
MaxTime == 600

\* Calls of get_oauth_token that are followed.
MaxTokenCalls == 3

\* line 27
_TOKEN_TTL == 300

\* Seconds that pass between two events, and while the token endpoint answers.
Elapses == {60, 240}

\* Time passes.
Tick ==
    /\ \E d \in Elapses :
        /\ now + d <= MaxTime
        /\ now' = now + d
    /\ UNCHANGED <<investigation, serving, formatting, _oauth_token, _oauth_token_expiry,
                   token_calls, _agent, invocations, _token_cache, threads, client,
                   mcp_requests>>

\* DATABRICKS_CLIENT_ID and DATABRICKS_CLIENT_SECRET of the environment,
\* lines 47-48: injected by Databricks Apps, or missing
Credentials ==
    {[DATABRICKS_CLIENT_ID |-> "client-id", DATABRICKS_CLIENT_SECRET |-> "client-secret"],
     [DATABRICKS_CLIENT_ID |-> "", DATABRICKS_CLIENT_SECRET |-> ""]}

\* a key the JSON body does not hold
Absent == [type |-> "absent"]

\* What the token endpoint does with the request of line 58: the connection
\* fails, a status other than 200, or a 200 whose body holds access_token
\* (or not) and expires_in: a number, absent, or null.
TokenAnswers ==
    {[kind |-> "raise"], [kind |-> "status", status |-> 401]}
      \cup {[kind |-> "status", status |-> 200, access_token |-> TRUE, expires_in |-> e] :
               e \in {IntValue(60), IntValue(3600), Absent, NoneValue}}
      \cup {[kind |-> "status", status |-> 200, access_token |-> FALSE,
              expires_in |-> IntValue(3600)]}

\* line 48: the cached token is used
StillValid(token, clock, expiry) == token # None /\ clock < expiry

\* mutant: the lifetime the endpoint grants is taken as it is
Lifetime_Granted(expires_in) == IF expires_in = Absent THEN 3600 ELSE expires_in.n

\* line 77: min(_TOKEN_TTL, data.get("expires_in", 3600))
Lifetime(expires_in) ==
    LET granted == IF expires_in = Absent THEN 3600 ELSE expires_in.n
    IN  IF _TOKEN_TTL < granted THEN _TOKEN_TTL ELSE granted

\* get_oauth_token, lines 42-82, as a whole; the token endpoint takes d
\* seconds to answer
get_oauth_token ==
    /\ Len(token_calls) < MaxTokenCalls
    /\ "DATABRICKS_CLIENT_ID" \in DOMAIN config
    /\ LET call == [at |-> now, held |-> _oauth_token, expiry |-> _oauth_token_expiry]
           Ends(how) == Append(token_calls, call @@ how @@ [ended |-> now'])
       IN  IF StillValid(_oauth_token, now, _oauth_token_expiry)
           THEN /\ UNCHANGED <<now, _oauth_token, _oauth_token_expiry>>
                /\ token_calls' = Ends([cached |-> TRUE, requested |-> FALSE,
                                        stored |-> None, returned |-> _oauth_token])
           ELSE IF config.DATABRICKS_CLIENT_ID = "" \/ config.DATABRICKS_CLIENT_SECRET = ""
           THEN /\ UNCHANGED <<now, _oauth_token, _oauth_token_expiry>>
                /\ token_calls' = Ends([cached |-> FALSE, requested |-> FALSE,
                                        stored |-> None, returned |-> None])
           ELSE \E resp \in TokenAnswers, d \in {0, 60} :
                /\ now + d <= MaxTime
                /\ now' = now + d
                /\ IF resp.kind = "status" /\ resp.status = 200
                   THEN LET token == IF resp.access_token
                                     THEN "token-" \o ToString(Len(token_calls) + 1)
                                     ELSE None
                        IN  /\ _oauth_token' = token
                            /\ IF resp.expires_in = NoneValue
                               THEN \* min(300, None) raises TypeError, line 79 swallows it
                                    /\ UNCHANGED _oauth_token_expiry
                                    /\ token_calls' = Ends([cached |-> FALSE,
                                          requested |-> TRUE, stored |-> token,
                                          returned |-> None])
                               ELSE /\ _oauth_token_expiry' = now' + Lifetime(resp.expires_in)
                                    /\ token_calls' = Ends([cached |-> FALSE,
                                          requested |-> TRUE, stored |-> token,
                                          returned |-> token])
                   ELSE /\ token_calls' = Ends([cached |-> FALSE, requested |-> TRUE,
                                               stored |-> None, returned |-> None])
                        /\ UNCHANGED <<_oauth_token, _oauth_token_expiry>>
    /\ UNCHANGED <<investigation, formatting, transport, tool, query, headers, config, outbound,
                   returned, _agent, invocations, _token_cache, threads, client, mcp_requests>>

\* The server has started: no token is cached (lines 25-26).
OAuthInit ==
    /\ NoInvestigation
    /\ NoFormatting
    /\ NoProcess
    /\ NoRequest
    /\ tool = None
    /\ query = << >>
    /\ headers = NoHeaders
    /\ config \in Credentials
    /\ outbound = << >>
    /\ returned = Pending

OAuthNext ==
    \/ Tick
    \/ get_oauth_token

OAuthSpec == OAuthInit /\ [][OAuthNext]_vars

-----------------------------------------------------------------------------
(***************************************************************************)
(* require_auth and validate_oauth_token of datascope-mcp-server, app.py   *)
(* lines 123-136 and 180-324.                                              *)
(*                                                                         *)
(* The gateway is a Flask application started with app.run (line 1145),    *)
(* which serves each request in a thread of its own: one behaviour of      *)
(* GatewaySpec is the life of the server with two such threads, whose      *)
(* steps interleave wherever a thread waits for the network.  The callers' *)
(* bearer tokens and the Databricks API are the environment.               *)
(***************************************************************************)

\* Requests one thread of the gateway serves.
MaxServed == 2

\* line 136
TOKEN_CACHE_TTL == 300

GatewayThreads == {1, 2}

\* MCP_AUTH_TOKEN and ALLOWED_SP_APP_ID as the module read them at import,
\* lines 126 and 131
AuthModes ==
    {[MCP_AUTH_TOKEN |-> s, ALLOWED_SP_APP_ID |-> a] :
        s \in {"", "s3cret"}, a \in {"", "allowed-sp"}}

\* What follows "Bearer " in the Authorization header, line 261 ("" when the
\* header is missing or does not start with "Bearer "): the static token, a
\* guess, a text with a character outside ASCII; a JWT of the allowed
\* service principal, a JWT of another one, a JWT whose payload is a JSON
\* list.
BearerTokens(mode) ==
    IF mode.MCP_AUTH_TOKEN # "" THEN {"", "s3cret", "guess", "non-ascii"}
    ELSE IF mode.ALLOWED_SP_APP_ID # "" THEN {"", "jwt-allowed", "jwt-other", "jwt-list"}
    ELSE {"", "guess"}

\* hmac.compare_digest(token, MCP_AUTH_TOKEN), line 277: raises TypeError on
\* a str with a character outside ASCII
CompareRaises(token) == token = "non-ascii"

\* decode_jwt_claims, lines 151-177: the payload as json.loads gives it, {}
\* when the token is no JWT
decode_jwt_claims(token) ==
    CASE token = "jwt-allowed" -> [type |-> "dict", sub |-> "allowed-sp"]
      [] token = "jwt-other" -> [type |-> "dict", sub |-> "other-sp"]
      [] token = "jwt-list" -> [type |-> "list"]
      [] OTHER -> [type |-> "dict", sub |-> ""]

\* line 197: the first 16 hex digits of the token's SHA-256, which tells
\* apart the tokens that occur here
token_hash(token) == "sha256:" \o token

\* an entry of _token_cache, lines 213, 225, 235: (is_valid, expiry)
CacheEntry(is_valid, expiry) == [is_valid |-> is_valid, expiry |-> expiry]

\* _token_cache[token_hash] = entry
Store(cache, key, value) ==
    [k \in DOMAIN cache \cup {key} |-> IF k = key THEN value ELSE cache[k]]

\* mutant: an entry is used however old it is
Unexpired_Always(cache, key, clock) == key \in DOMAIN cache

\* lines 198-200: the token has an entry and time.time() < expiry
Unexpired(cache, key, clock) == key \in DOMAIN cache /\ clock < cache[key].expiry

AUTH_ERROR == 0 - 32001

\* the 401 replies of require_auth, lines 267-274, 282-289, 295-302, 311-318
Unauthorized(message) == HttpReply(401, JsonRpcError(None, AUTH_ERROR, message))

\* Flask's answer to an exception no handler catches
InternalServerError == HttpReply(500, [html |-> "Internal Server Error"])

\* return f(*args, **kwargs): mcp_endpoint runs and its reply is sent
EndpointRuns == [called |-> "mcp_endpoint"]

\* What the Databricks API answers to GET /api/2.0/preview/scim/v2/Me, line
\* 218: a status, or the request times out or fails
ScimAnswers ==
    {[kind |-> "status", status |-> s] : s \in {200, 401, 403}} \cup {[kind |-> "raise"]}

\* decorated, lines 258-322, with validate_oauth_token, lines 193-214, up to
\* the reply or to the request of line 218
require_auth(t) ==
    /\ threads[t].pc \in {"idle", "done"}
    /\ threads[t].n < MaxServed
    /\ \E token \in BearerTokens(config) :
        LET key == token_hash(token)
            claims == decode_jwt_claims(token)
            req == [n |-> threads[t].n + 1, token |-> token]
            Ends(source, ran, answer) ==
                [threads EXCEPT ![t] = req @@ [pc |-> "done", source |-> source,
                                               ran |-> ran, reply |-> answer]]
        IN  IF config.MCP_AUTH_TOKEN # ""
            THEN /\ UNCHANGED _token_cache
                 /\ threads' =
                      (IF token = ""
                       THEN Ends("header", FALSE, Unauthorized(
                                   <<"Authorization header with Bearer token required">>))
                       ELSE IF CompareRaises(token)
                       THEN Ends("raise", FALSE, InternalServerError)
                       ELSE IF token = config.MCP_AUTH_TOKEN
                       THEN Ends("static", TRUE, EndpointRuns)
                       ELSE Ends("static", FALSE,
                                 Unauthorized(<<"Invalid authentication token">>)))
            ELSE IF config.ALLOWED_SP_APP_ID # ""
            THEN IF token = ""
                 THEN /\ UNCHANGED _token_cache
                      /\ threads' = Ends("header", FALSE, Unauthorized(
                                      <<"Authorization header with Bearer token required">>))
                 ELSE IF Unexpired(_token_cache, key, now)
                 THEN /\ UNCHANGED _token_cache
                      /\ threads' =
                           (IF _token_cache[key].is_valid
                            THEN Ends("cache", TRUE, EndpointRuns)
                            ELSE Ends("cache", FALSE, Unauthorized(
                                        <<"Authentication failed: ", "cached_invalid">>)))
                 ELSE IF claims.type # "dict"
                 THEN \* claims.get raises AttributeError, line 209
                      /\ UNCHANGED _token_cache
                      /\ threads' = Ends("raise", FALSE, InternalServerError)
                 ELSE IF claims.sub # config.ALLOWED_SP_APP_ID
                 THEN /\ _token_cache' = Store(_token_cache, key,
                                               CacheEntry(FALSE, now + 60))
                      /\ threads' = Ends("claims", FALSE, Unauthorized(
                                      <<"Authentication failed: ", "Unauthorized client ID">>))
                 ELSE /\ UNCHANGED _token_cache
                      /\ threads' = [threads EXCEPT ![t] = req @@ [pc |-> "validating"]]
            ELSE /\ UNCHANGED _token_cache
                 /\ threads' = Ends("dev", TRUE, EndpointRuns)
    /\ UNCHANGED <<investigation, serving, formatting, now, _oauth_token, _oauth_token_expiry,
                   token_calls, _agent, invocations, client, mcp_requests>>

\* validate_oauth_token, lines 217-243, from the answer to the request of
\* line 218 on, and decorated, lines 306-318
validate_oauth_token(t) ==
    /\ threads[t].pc = "validating"
    /\ \E resp \in ScimAnswers :
        LET req == threads[t]
            key == token_hash(req.token)
            Ends(ran, answer) ==
                [threads EXCEPT ![t] = [n |-> req.n, token |-> req.token, pc |-> "done",
                                        source |-> "upstream", ran |-> ran,
                                        reply |-> answer]]
        IN  /\ outbound' = Append(outbound,
                                  [url |-> "/api/2.0/preview/scim/v2/Me",
                                   token |-> req.token, answer |-> resp])
            /\ IF resp.kind = "raise"
               THEN /\ UNCHANGED _token_cache
                    /\ threads' = Ends(FALSE, Unauthorized(
                                         <<"Authentication failed: ", "str(e)">>))
               ELSE IF resp.status = 401
               THEN /\ _token_cache' = Store(_token_cache, key,
                                             CacheEntry(FALSE, now + 60))
                    /\ threads' = Ends(FALSE, Unauthorized(
                                    <<"Authentication failed: ", "Invalid or expired token">>))
               ELSE IF resp.status # 200
               THEN /\ UNCHANGED _token_cache
                    /\ threads' = Ends(FALSE, Unauthorized(
                                    <<"Authentication failed: ", "Token validation failed: ",
                                      ToString(resp.status)>>))
               ELSE /\ _token_cache' = Store(_token_cache, key,
                                             CacheEntry(TRUE, now + TOKEN_CACHE_TTL))
                    /\ threads' = Ends(TRUE, EndpointRuns)
    /\ UNCHANGED <<investigation, formatting, transport, tool, query, headers, config, returned,
                   now, _oauth_token, _oauth_token_expiry, token_calls, _agent, invocations,
                   client, mcp_requests>>

\* A request comes in and a thread takes it.
Admit == \E t \in GatewayThreads : require_auth(t)

\* The Databricks API answers a thread that waits.
Validate == \E t \in GatewayThreads : validate_oauth_token(t)

\* The gateway has started: the cache is empty (line 135), no thread serves.
GatewayInit ==
    /\ NoInvestigation
    /\ NoFormatting
    /\ NoRequest
    /\ tool = None
    /\ query = << >>
    /\ headers = NoHeaders
    /\ config \in AuthModes
    /\ outbound = << >>
    /\ returned = Pending
    /\ now = 0
    /\ _oauth_token = None
    /\ _oauth_token_expiry = 0
    /\ token_calls = << >>
    /\ _agent = NoAgent
    /\ invocations = << >>
    /\ _token_cache = << >>
    /\ threads = [t \in GatewayThreads |-> [pc |-> "idle", n |-> 0]]
    /\ client = [_initialized |-> FALSE, _tools_cache |-> NoTools]
    /\ mcp_requests = << >>

GatewayNext ==
    \/ Admit
    \/ Validate
    \/ Tick

GatewaySpec == GatewayInit /\ [][GatewayNext]_vars

-----------------------------------------------------------------------------
(***************************************************************************)
(* MCPClient of datascope-langgraph-app, agent/tools.py lines 40-173.      *)
(*                                                                         *)
(* One behaviour of ClientSpec is the life of one client object, whose     *)
(* methods are called one after the other; the MCP server it talks to is   *)
(* the environment.  mcp_requests holds one record for every method call:  *)
(* the method, the requests it sent in order, and whether it raised.       *)
(***************************************************************************)

\* Method calls made on the client.
MaxClientCalls == 4

\* What comes back to _send_request, lines 71-89.  "fails": the POST raises,
\* the status is not 200, the body is no JSON or carries an "error" member,
\* and _send_request raises.  Otherwise it returns the "result" member:
\* "ok" when that is what the method expects; "null" when it is null or,
\* for tools/list, has null under "tools"; "nameless" when the entries under
\* "tools" have no "name".
InitializeReplies == {"ok", "fails", "null"}
ListReplies == {"ok", "fails", "null", "nameless"}
CallReplies == {"ok", "fails"}

_send_request(method, answer) == [method |-> method, answer |-> answer]

\* the POST of lines 108-118, whose failure is ignored
notify == [method |-> "notifications/initialized", answer |-> "ignored"]

MethodCall(c, requests, raises) == [client |-> c, sent |-> requests, raised |-> raises]

\* mutant: the flag is never set
SetInitialized_Forgets(c) == c

\* line 104
SetInitialized(c) == [c EXCEPT !._initialized = TRUE]

\* MCPClient.initialize, lines 91-123
do_initialize(c, answer) ==
    IF c._initialized THEN MethodCall(c, << >>, FALSE)
    ELSE IF answer = "fails"
    THEN MethodCall(c, <<_send_request("initialize", answer)>>, TRUE)
    ELSE IF answer = "null"
    THEN \* result.get raises at line 105, after line 104
         MethodCall(SetInitialized(c), <<_send_request("initialize", answer)>>, TRUE)
    ELSE MethodCall(SetInitialized(c), <<_send_request("initialize", answer), notify>>, FALSE)

\* the "if not self._initialized: self.initialize()" of lines 130-131 and
\* 149-150
EnsureInitialized(c, answer) ==
    IF ~c._initialized THEN do_initialize(c, answer) ELSE MethodCall(c, << >>, FALSE)

Tools(named) == [cached |-> TRUE, named |-> named]

\* MCPClient.list_tools, lines 125-137
do_list_tools(c, init_answer, answer) ==
    IF c._tools_cache # NoTools THEN MethodCall(c, << >>, FALSE)
    ELSE LET i == EnsureInitialized(c, init_answer)
             requests == Append(i.sent, _send_request("tools/list", answer))
         IN  IF i.raised THEN i
             ELSE IF answer \in {"fails", "null"}
             THEN MethodCall(i.client, requests, TRUE)
             ELSE IF answer = "nameless"
             THEN \* t['name'] raises at line 136, after line 134
                  MethodCall([i.client EXCEPT !._tools_cache = Tools(FALSE)], requests, TRUE)
             ELSE MethodCall([i.client EXCEPT !._tools_cache = Tools(TRUE)], requests, FALSE)

\* MCPClient.call_tool, lines 139-173
do_call_tool(c, init_answer, answer) ==
    LET i == EnsureInitialized(c, init_answer)
    IN  IF i.raised THEN i
        ELSE MethodCall(i.client, Append(i.sent, _send_request("tools/call", answer)),
                        answer = "fails")

Called(fn, made) ==
    /\ client' = made.client
    /\ mcp_requests' = Append(mcp_requests,
                              [fn |-> fn, sent |-> made.sent, raised |-> made.raised])
    /\ UNCHANGED <<investigation, serving, formatting, now, _oauth_token, _oauth_token_expiry,
                   token_calls, _agent, invocations, _token_cache, threads>>

initialize ==
    /\ Len(mcp_requests) < MaxClientCalls
    /\ \E answer \in InitializeReplies : Called("initialize", do_initialize(client, answer))

list_tools ==
    /\ Len(mcp_requests) < MaxClientCalls
    /\ \E init_answer \in InitializeReplies, answer \in ListReplies :
        Called("list_tools", do_list_tools(client, init_answer, answer))

call_tool ==
    /\ Len(mcp_requests) < MaxClientCalls
    /\ \E init_answer \in InitializeReplies, answer \in CallReplies :
        Called("call_tool", do_call_tool(client, init_answer, answer))

\* MCPClient.__init__, lines 47-53
ClientInit ==
    /\ NoInvestigation
    /\ NoToolCall
    /\ NoFormatting
    /\ NoProcess

ClientNext ==
    \/ initialize
    \/ list_tools
    \/ call_tool

ClientSpec == ClientInit /\ [][ClientNext]_vars

------------------------------------------------------------------------

-----------------------------------------------------------------------------
(* Shared definitions of the properties *)

ChatNext == Begin \/ Gather \/ Finalize

IsChat == entry = "chat_with_llm"
Returned == IsChat /\ pc = "done"

\* the k-th answer is a parsed 200 reply that carries tool calls
AsksTools(k) ==
    /\ k \in DOMAIN responses
    /\ llm_requests[k].tools
    /\ responses[k].kind = "reply"
    /\ responses[k].status = 200
    /\ responses[k].tool_calls # << >>

\* place in `messages` of the assistant message of the k-th answer, when the
\* answers before it were dispatched: system, user, then each earlier batch
RECURSIVE AssistantAt(_)
AssistantAt(k) ==
    IF k = 1 THEN 3 ELSE AssistantAt(k - 1) + 1 + Len(responses[k - 1].tool_calls)

\* the i-th call of the k-th answer has its tool message in place
Answered(k, i) ==
    LET at == AssistantAt(k) + i
    IN  /\ at \in DOMAIN messages
        /\ messages[AssistantAt(k)].role = "assistant"
        /\ messages[AssistantAt(k)].tool_calls = responses[k].tool_calls
        /\ messages[at].role = "tool"
        /\ messages[at].tool_call_id = responses[k].tool_calls[i].id

\* a call on which the dispatch loop of chat_with_llm raises
CallRaises(tc) ==
    /\ tc.name \in CatalogNames
    /\ \/ tc.arguments = "not_object"
       \/ tc.arguments = "non_string" /\ tc.name # "search_code"

\* tool messages of the k-th answer's batch that are in `messages`
AnsweredCount(k) ==
    Cardinality({ i \in DOMAIN responses[k].tool_calls : Answered(k, i) })

IsErrorText(t) == Len(t) = 2 /\ t[1] = "Error: "

-----------------------------------------------------------------------------
(* C1 *)

\* C1: one call of chat_with_llm sends at most 6 requests to the LLM
\* endpoint, at most 5 of them with the tool catalog and at most 1 without
\* it, the one without it being the last; and as long as it has not
\* returned it can take a step (no step of it is ever blocked or left by an
\* exception), so it returns.
C1_BoundedLLMCalls ==
    IsChat =>
        /\ Len(llm_requests) <= MaxIterations + 1
        /\ Cardinality({ i \in DOMAIN llm_requests : llm_requests[i].tools })
               <= MaxIterations
        /\ \A i \in DOMAIN llm_requests :
               ~llm_requests[i].tools => i = Len(llm_requests)
        /\ iteration <= MaxIterations
        /\ pc # "done" => ENABLED ChatNext

-----------------------------------------------------------------------------
(* C2 *)

\* C2: in the LangGraph workflow the analyze/investigate cycle is left for
\* synthesize after at most max_iterations (5) runs of the investigate node.
C2_CapWins ==
    entry = "investigate" => passes <= state.max_iterations

-----------------------------------------------------------------------------
(* C3 *)

-----------------------------------------------------------------------------
(* C4 *)

\* assistant messages before place j whose tool calls hold the id of the
\* tool message at j
ChatRequesters(j) ==
    { a \in 1..(j - 1) :
        /\ messages[a].role = "assistant"
        /\ \E i \in DOMAIN messages[a].tool_calls :
               messages[a].tool_calls[i].id = messages[j].tool_call_id }

GraphRequesters(j) ==
    { a \in 1..(j - 1) :
        /\ state.messages[a].type = "ai"
        /\ \E i \in DOMAIN state.messages[a].tool_calls :
               state.messages[a].tool_calls[i].id = state.messages[j].tool_call_id }

\* C4 as claimed: every tool message carries the id of a tool call of
\* exactly one assistant message that is earlier in the same list.
C4_ExactlyOneRequester ==
    /\ \A j \in DOMAIN messages :
           messages[j].role = "tool" => Cardinality(ChatRequesters(j)) = 1
    /\ \A j \in DOMAIN state.messages :
           state.messages[j].type = "tool" => Cardinality(GraphRequesters(j)) = 1

\* the ids of all tool calls the LLM has sent are pairwise different
RECURSIVE AllCalls(_)
AllCalls(rs) == IF rs = << >> THEN << >> ELSE rs[1].tool_calls \o AllCalls(Tail(rs))

IdsDistinct ==
    LET calls == AllCalls(responses)
    IN  \A i, j \in DOMAIN calls : calls[i].id = calls[j].id => i = j

\* place of the nearest assistant message before place j, 0 when there is none
RECURSIVE LastAssistantBefore(_)
LastAssistantBefore(j) ==
    IF j = 1 THEN 0
    ELSE IF messages[j - 1].role = "assistant" THEN j - 1
    ELSE LastAssistantBefore(j - 1)

RECURSIVE LastAiBefore(_)
LastAiBefore(j) ==
    IF j = 1 THEN 0
    ELSE IF state.messages[j - 1].type = "ai" THEN j - 1
    ELSE LastAiBefore(j - 1)

\* C4 as amended: every tool message carries the id of a tool call of the
\* nearest assistant message before it, the call whose place in the batch is
\* the tool message's place after that assistant message; hence of at least
\* one earlier assistant message, and of exactly one when the LLM never
\* repeats a tool-call id within the investigation.
C4_Paired ==
    LET distinct == IdsDistinct
    IN  /\ \A j \in DOMAIN messages :
               messages[j].role = "tool" =>
                   LET a == LastAssistantBefore(j)
                   IN  /\ a # 0
                       /\ j - a \in DOMAIN messages[a].tool_calls
                       /\ messages[a].tool_calls[j - a].id = messages[j].tool_call_id
                       /\ distinct => ChatRequesters(j) = {a}
        /\ \A j \in DOMAIN state.messages :
               state.messages[j].type = "tool" =>
                   LET a == LastAiBefore(j)
                   IN  /\ a # 0
                       /\ j - a \in DOMAIN state.messages[a].tool_calls
                       /\ state.messages[a].tool_calls[j - a].id
                              = state.messages[j].tool_call_id
                       /\ distinct => GraphRequesters(j) = {a}

\* two batches were dispatched and the second repeats an id of the first
C4_Witness ==
    /\ IsChat
    /\ \E j \in DOMAIN messages :
           /\ messages[j].role = "tool"
           /\ Cardinality(ChatRequesters(j)) = 2

-----------------------------------------------------------------------------
(* C5 *)

\* the batch of the k-th answer was dispatched by chat_with_llm
Dispatched(k) == AsksTools(k) /\ ~LooksFinal(responses[k].content)

\* a message list only grows at its end
ChatAppendOnly ==
    /\ Len(messages') >= Len(messages)
    /\ \A j \in DOMAIN messages : messages'[j] = messages[j]

GraphAppendOnly ==
    /\ Len(state'.messages) >= Len(state.messages)
    /\ \A j \in DOMAIN state.messages : state'.messages[j] = state.messages[j]

\* in the workflow an ai message with tool calls that is not the last message
\* has been dispatched by run_tools
GraphBatchInOrder ==
    \A a \in DOMAIN state.messages :
        LET tcs == state.messages[a].tool_calls
        IN  (tcs # << >> /\ a < Len(state.messages)) =>
                /\ a + Len(tcs) <= Len(state.messages)
                /\ \A i \in DOMAIN tcs :
                       /\ state.messages[a + i].type = "tool"
                       /\ state.messages[a + i].tool_call_id = tcs[i].id
                /\ (a + Len(tcs) < Len(state.messages)
                        => state.messages[a + Len(tcs) + 1].type # "tool")

ChatBatchInOrder ==
    \A k \in DOMAIN responses :
        Dispatched(k) =>
            LET n == Len(responses[k].tool_calls)
            IN  /\ \A i \in 1..n : Answered(k, i)
                /\ (AssistantAt(k) + n < Len(messages)
                        => messages[AssistantAt(k) + n + 1].role # "tool")

\* C5: a dispatched batch of n tool calls leaves exactly n tool messages
\* right after the assistant message that requested them, the i-th with the
\* id of the i-th call; and no step reorders, changes or removes a message
\* that is already in the history.
C5_BatchInOrder ==
    /\ [](IsChat => ChatBatchInOrder)
    /\ [](entry = "investigate" => GraphBatchInOrder)
    /\ [][ChatAppendOnly /\ GraphAppendOnly]_vars

-----------------------------------------------------------------------------
(* C6 *)

\* place of the ai message of the r-th answer in state.messages (r >= 2:
\* the answer of retrieve, then those of analyze)
RECURSIVE GraphAiAt(_)
GraphAiAt(r) ==
    IF r = 2 THEN 3 ELSE GraphAiAt(r - 1) + Len(responses[r - 1].tool_calls) + 2

\* first call of a batch on which the dispatch of chat_with_llm raises
FirstRaising(tcs) ==
    IF \E i \in DOMAIN tcs : CallRaises(tcs[i])
    THEN CHOOSE i \in DOMAIN tcs :
             CallRaises(tcs[i]) /\ \A j \in 1..(i - 1) : ~CallRaises(tcs[j])
    ELSE Len(tcs) + 1

-----------------------------------------------------------------------------
(* C7 *)

\* the LLM asked for tools in each of the MaxIterations gathering iterations
ToolsEveryIteration == IsChat /\ \A k \in 1..MaxIterations : AsksTools(k)

SummaryPrompts ==
    { j \in DOMAIN messages : messages[j] = Message("user", summary_prompt) }

\* the finalization request was sent: the request after the MaxIterations
\* gathering requests, without the tool catalog, its last message the one
\* summary instruction of the history
SummaryRequested ==
    /\ Len(llm_requests) = MaxIterations + 1
    /\ ~llm_requests[MaxIterations + 1].tools
    /\ Cardinality(SummaryPrompts) = 1
    /\ llm_requests[MaxIterations + 1].last \in SummaryPrompts
    /\ llm_requests[MaxIterations + 1].last = Len(messages)

FifthEndsRun ==
    \/ LooksFinal(responses[MaxIterations].content)
    \/ \E i \in DOMAIN responses[MaxIterations].tool_calls :
           CallRaises(responses[MaxIterations].tool_calls[i])

-----------------------------------------------------------------------------
(* C8 *)

FirstAnswerIsText ==
    /\ IsChat
    /\ responses # << >>
    /\ responses[1].kind = "reply"
    /\ responses[1].status = 200
    /\ responses[1].tool_calls = << >>
    /\ responses[1].content # ""

\* C8: when the first LLM answer has no tool calls and a text that is not
\* empty, chat_with_llm returns that text unchanged, with no tool executed,
\* no tool message in the history and no second LLM request.
C8_DirectAnswer ==
    FirstAnswerIsText =>
        /\ pc = "done"
        /\ ~raised
        /\ result = [response |-> <<responses[1].content>>,
                     conversation_id |-> conversation_id]
        /\ executed = << >>
        /\ tool_results_collected = << >>
        /\ Len(llm_requests) = 1
        /\ Len(responses) = 1
        /\ \A j \in DOMAIN messages : messages[j].role # "tool"

\* a first answer that is a blank text without tool calls was returned
C8_Witness ==
    /\ FirstAnswerIsText
    /\ responses[1].content = " "
    /\ pc = "done"
    /\ result.response = <<" ">>

-----------------------------------------------------------------------------
(* C9 *)

\* the run ended in the fallback: the finalization answer was a 200 reply
\* with empty content
FallbackReturned ==
    /\ Returned
    /\ Len(llm_requests) = MaxIterations + 1
    /\ responses[MaxIterations + 1].kind = "reply"
    /\ responses[MaxIterations + 1].status = 200
    /\ responses[MaxIterations + 1].content = ""

\* the lines of a fallback text that name a tool
ListedTools(text) == SubSeq(text, 3, Len(text) - 1)

\* C9 as the specification states it: the text chat_with_llm returns is
\* never empty, and the fallback text lists the tools that were invoked.  It
\* is stated here for the calls that return, which leaves the exception of
\* C10 aside.
C9_ListsInvokedTools ==
    Returned =>
        /\ ~TextIsEmpty(result.response)
        /\ (FallbackReturned /\ executed # << >>) =>
               ListedTools(result.response)
                   = [i \in DOMAIN executed |-> "- " \o CollectedEntry(executed[i].name)]

\* the shorter of a sequence and its first n elements
Head_n(seq, n) == SubSeq(seq, 1, IF Len(seq) < n THEN Len(seq) ELSE n)

\* C9, amended: whenever chat_with_llm returns, the text it returns is not
\* the empty string (it may be blank); when the finalization answer is empty
\* and tools were invoked, the fallback text lists the first FallbackListed
\* (5) of them in the order they ran and no more, and it lists none when no
\* tool ran.  (A call that raises before the `try` returns no text at all:
\* see C10.)
C9_NeverEmpty ==
    Returned =>
        /\ ~TextIsEmpty(result.response)
        /\ result.response # << >>
        /\ FallbackReturned =>
               /\ tool_results_collected
                      = [i \in DOMAIN executed |-> CollectedEntry(executed[i].name)]
               /\ executed # << >> =>
                      ListedTools(result.response)
                          = [i \in 1..Len(Head_n(executed, FallbackListed)) |->
                                "- " \o CollectedEntry(executed[i].name)]
               /\ executed = << >> => Len(result.response) = 1

\* the fallback was returned after more tools ran than it lists
C9_Witness ==
    /\ FallbackReturned
    /\ Len(executed) > FallbackListed
    /\ Len(ListedTools(result.response)) = FallbackListed

-----------------------------------------------------------------------------
(* C10 *)

\* C10: chat_with_llm always returns a (response_text, conversation_id) pair
\* and never raises; an exception met on the way is turned into an error
\* text in the pair.
C10_AlwaysReturnsPair ==
    IsChat =>
        /\ ~raised
        /\ pc # "raised"
        /\ pc = "done" =>
               /\ result.conversation_id = conversation_id
               /\ result.conversation_id # None
               /\ result.response # << >>
               /\ (responses # << >> /\ responses[Len(responses)].kind = "raise") =>
                      IsErrorText(result.response)

-----------------------------------------------------------------------------
(* C11 *)

\* the k-th answer of the LLM endpoint is a non-200 answer
NonOkAnswer(k) ==
    /\ k \in DOMAIN responses
    /\ responses[k].kind = "reply"
    /\ responses[k].status # 200

\* C11: a non-200 answer from the LLM endpoint ends the investigation of
\* chat_with_llm at once: it is the last answer, the call has returned, the
\* returned text is the error text made of the answer's body ("LLM Error: "
\* in the loop, "Error generating summary: " in the finalization), and
\* after the request of that answer no message was appended and no tool ran.
C11_NonOkEndsRun ==
    IsChat =>
        \A k \in DOMAIN responses :
            NonOkAnswer(k) =>
                /\ k = Len(responses)
                /\ k = Len(llm_requests)
                /\ pc = "done"
                /\ ~raised
                /\ result.response =
                       (IF llm_requests[k].tools
                        THEN <<"LLM Error: ", "resp.text[:300]">>
                        ELSE <<"Error generating summary: ", "resp.text[:200]">>)
                /\ Len(messages) = llm_requests[k].last
                /\ \A e \in DOMAIN executed : executed[e].iteration < k - 1
                /\ ~ENABLED ChatNext

\* a non-200 answer came after a batch of tools had been dispatched
C11_Witness ==
    /\ IsChat
    /\ NonOkAnswer(2)
    /\ llm_requests[2].tools
    /\ executed # << >>
    /\ pc = "done"

-----------------------------------------------------------------------------
(* Shared definitions of the properties of the SQL tools *)

\* The read-only rule: the trimmed, upper-cased text starts with an
\* allow-listed verb and holds no deny-listed keyword.
ReadOnlyText(q) ==
    LET text == str_strip(str_upper(q))
    IN  /\ \E verb \in {kwSELECT, kwDESCRIBE, kwDESC, kwSHOW} : startswith(text, verb)
        /\ \A kw \in {kwDROP, kwDELETE, kwUPDATE, kwINSERT, kwALTER, kwTRUNCATE, kwCREATE} :
              ~str_in(kw, text)

ToolReturned == returned # Pending

-----------------------------------------------------------------------------
\* C12: the gateway's execute_sql sends a statement to the SQL warehouse only
\* if its trimmed, upper-cased text starts with SELECT, DESCRIBE, DESC or SHOW
\* and contains none of DROP, DELETE, UPDATE, INSERT, ALTER, TRUNCATE, CREATE;
\* every other statement is answered with an error and nothing is sent.
C12_ReadOnlyGate ==
    tool = "execute_sql" =>
        /\ Len(outbound) <= 1
        /\ \A i \in DOMAIN outbound :
              outbound[i].statement = query /\ ReadOnlyText(query)
        /\ (ToolReturned /\ ~ReadOnlyText(query)) =>
              ("error" \in DOMAIN returned /\ outbound = << >>)

\* 'SELECT * FROM t; DROP TABLE t' from an authenticated caller is refused.
C12_Witness ==
    /\ tool = "execute_sql"
    /\ query = SelectAll \o ThenDropTable
    /\ headers = UserHeader
    /\ config \in Configured
    /\ returned = [error |-> <<"Only read-only queries are allowed">>]
    /\ outbound = << >>

-----------------------------------------------------------------------------
\* C13: execute_sql of the chat app and execute_sql of the LangGraph app
\* enforce the same read-only rule: no statement that holds DROP, DELETE,
\* UPDATE, INSERT, ALTER, TRUNCATE or CREATE, or that does not start with an
\* allow-listed verb, is ever sent to the warehouse.
C13_AgentsReadOnly ==
    tool \in AgentTools =>
        \A i \in DOMAIN outbound : ReadOnlyText(outbound[i].statement)

-----------------------------------------------------------------------------
\* The warehouse's answer to the tool's request held more rows than the cap.
MoreRowsThanCap ==
    /\ outbound # << >>
    /\ outbound[1].api = "sql/statements"
    /\ outbound[1].answer.kind = "reply"
    /\ outbound[1].answer.status = 200
    /\ outbound[1].answer.state = "SUCCEEDED"
    /\ Len(outbound[1].answer.result.data_array) > MAX_ROWS

\* C14: whenever the warehouse returns more rows than the cap of 15, the
\* query tool's result holds at most 15 rows, reports a total row count that
\* is at least the number of rows returned, and carries a truncation
\* indicator: truncated = true in the gateway, a 'Showing n of total rows'
\* footer in the agent tool.
C14_TruncationReported ==
    (MoreRowsThanCap /\ ToolReturned) =>
        /\ tool \in {"execute_sql", "get_table_schema"} =>
              /\ Len(returned.rows) <= MAX_ROWS
              /\ returned.row_count >= Len(returned.rows)
              /\ returned.truncated
        /\ tool = "langgraph_app.execute_sql" =>
              /\ Len(returned.body_lines) <= MAX_ROWS
              /\ Len(returned.footer) = 5
              /\ returned.footer[2] = Len(returned.body_lines)
              /\ returned.footer[4] >= Len(returned.body_lines)

-----------------------------------------------------------------------------
\* The token of the caller's X-User-Token header, "" when there is none.
CallerToken == token_strip(headers_get(headers, "X-User-Token", ""))

\* C19: a data-access tool call (execute_sql, search_patterns,
\* get_table_schema) that arrives without a per-user token is never served
\* with the shared service credential: the upstream call is made with the
\* token of the caller's X-User-Token header, or the call is rejected with an
\* authentication error and nothing is sent upstream.
C19_NoSharedCredential ==
    tool \in GatewayTools =>
        /\ \A i \in DOMAIN outbound : outbound[i].token = CallerToken
        /\ (CallerToken = "" /\ ToolReturned) =>
              /\ outbound = << >>
              /\ "error" \in DOMAIN returned

-----------------------------------------------------------------------------
(* Shared definitions of the properties of the MCP servers *)

Replied == reply # Pending
IsToolsCall == request.kind = "object" /\ request.method = "tools/call"
CalledName ==
    IF IsToolsCall /\ ~GetRaises(request.params)
    THEN json_get(request.params, "name", JsonString(""))
    ELSE JsonAbsent
CalledArguments ==
    IF IsToolsCall /\ ~GetRaises(request.params)
    THEN json_get(request.params, "arguments", EmptyObject)
    ELSE JsonAbsent
ServerTools ==
    IF server = "datascope-mcp-server" THEN valid_tools ELSE TOOL_HANDLERS
IsJsonRpcError == "jsonrpc" \in DOMAIN reply.body /\ "error" \in DOMAIN reply.body
IsJsonRpcResult == "jsonrpc" \in DOMAIN reply.body /\ "result" \in DOMAIN reply.body

\* The request names a method the server does not know.
UnknownMethod == request.kind = "object" /\ request.method = "resources/list"

\* The request calls a tool the server does not have.
UnknownTool ==
    /\ IsToolsCall
    /\ CalledName.type = "string"
    /\ CalledName.text \notin ServerTools

\* The code the server answers an unknown method with.
UnknownMethodCode ==
    LET unknown == [kind |-> "object", id |-> "1", method |-> "resources/list",
                    params |-> JsonAbsent]
    IN  IF server = "datascope-mcp-server"
        THEN EndpointAnswer(unknown).body.error.code
        ELSE handle_mcp_request(unknown.method, unknown.id, EmptyObject).error.code

-----------------------------------------------------------------------------
\* C15: the gateway answers an unknown JSON-RPC method and a tools/call for
\* an unknown tool name with structured error responses whose error codes
\* differ from each other, and both differ from the code used for internal
\* failures.
C15_DistinctErrorCodes ==
    Replied =>
        /\ UnknownMethod =>
              /\ IsJsonRpcError
              /\ reply.body.error.code = UnknownMethodCode
              /\ reply.body.error.code # INTERNAL_ERROR
        /\ UnknownTool =>
              /\ IsJsonRpcError
              /\ reply.body.error.code # INTERNAL_ERROR
              /\ reply.body.error.code # UnknownMethodCode

-----------------------------------------------------------------------------
-----------------------------------------------------------------------------
\* C17: a notifications/initialized request gets no response body: the reply
\* is an empty 202, never a JSON-RPC result or error object.
C17_NotificationUnanswered ==
    (request.kind = "object" /\ request.method = "notifications/initialized" /\ Replied) =>
        /\ reply.status = 202
        /\ reply.body = NoBody

-----------------------------------------------------------------------------
\* The tool of the request was called with arguments that fit it.
WellFormedCall ==
    /\ IsToolsCall
    /\ CalledName.type = "string"
    /\ CalledName.text \in ServerTools
    /\ CalledArguments.type = "object"
    /\ CASE CalledName.text \in {"search_code", "search_patterns"} ->
              CalledArguments.fields = [query |-> JsonString("orders")]
         [] CalledName.text = "execute_sql" ->
              CalledArguments.fields = [query |-> JsonString("SELECT * FROM t")]
         [] CalledName.text = "get_file" -> DOMAIN CalledArguments.fields = {"file_path"}
         [] CalledName.text = "list_sql_files" ->
              DOMAIN CalledArguments.fields \subseteq {"directory"}
         [] OTHER -> FALSE

\* The host the tool calls cannot be reached.
HostUnreachable ==
    \/ CalledName.text \in {"search_code", "get_file", "list_sql_files"}
         /\ github = "unreachable"
    \/ CalledName.text \in {"execute_sql", "search_patterns"}
         /\ outbound # << >>
         /\ outbound[1].answer.kind = "raise"

\* The input names a file or a directory that does not exist.
NoSuchTarget ==
    \/ CalledName.text = "get_file"
         /\ CalledArguments.fields["file_path"] = JsonString("sql/missing.sql")
    \/ CalledName.text = "list_sql_files"
         /\ json_get(CalledArguments, "directory", JsonString("sql")) = JsonString("nope")

\* C18: every gateway tool implementation (search_code, get_file,
\* list_sql_files, execute_sql, search_patterns), when its upstream host is
\* unreachable or its input names a file or directory that does not exist,
\* returns a value that contains an error field and does not raise.
C18_ErrorSoftTools ==
    (Replied /\ WellFormedCall /\ (HostUnreachable \/ NoSuchTarget)) =>
        "error" \in DOMAIN returned

-----------------------------------------------------------------------------
\* The messages of the first LLM request.
FirstSent == SubSeq(messages, 1, llm_requests[1].last)

\* The exchanges of the earlier turns, oldest first.
EarlierExchanges == PairUp(SelectedRows(history), 1)

\* The 'Previous Context' block that replays the last n exchanges.
ContextOfLast(n) ==
    SummaryText(SubSeq(EarlierExchanges, Len(EarlierExchanges) - n + 1,
                       Len(EarlierExchanges))).text

\* C20: on a follow-up the first LLM request of chat_with_llm consists of
\* exactly one system message and the current user question; the system
\* message is the system prompt alone or the system prompt with one
\* 'Previous Context' block that covers the last exchange or the last two
\* exchanges of the earlier turns, and no message of the request is a
\* tool-call or a tool-result message.
C20_FollowUpRequest ==
    (IsChat /\ llm_requests # << >>) =>
        /\ Len(FirstSent) = 2
        /\ FirstSent[1].role = "system"
        /\ FirstSent[2] = Message("user", question)
        /\ \/ FirstSent[1].content = SYSTEM_PROMPT
           \/ \E n \in 1..2 :
                /\ n <= Len(EarlierExchanges)
                /\ FirstSent[1].content = SystemContent(ContextOfLast(n))
        /\ \A i \in DOMAIN FirstSent :
              /\ FirstSent[i].tool_calls = << >>
              /\ FirstSent[i].tool_call_id = NoId
              /\ FirstSent[i].role \notin {"assistant", "tool"}

\* A follow-up after three completed turns: the request replays turns 2 and 3.
C20_Witness ==
    /\ IsChat
    /\ llm_requests # << >>
    /\ Len(EarlierExchanges) = 3
    /\ FirstSent[1].content = SystemContent(ContextOfLast(2))
    /\ FirstSent[1].content # SystemContent(ContextOfLast(3))

-----------------------------------------------------------------------------
\* The longest text get_conversation_summary can return: the heading, and for
\* each of two exchanges a question line of 14 + 200 characters, an answer
\* line of 13 + 400 + 3 characters and an empty line, joined by 5 newlines.
SummaryBound == 21 + 2 * (14 + 200) + 2 * (13 + 400 + 3) + 5

\* C21: the text returned by get_conversation_summary is never longer than
\* one fixed constant, whatever the number and the length of the stored rows.
C21_SummaryBounded ==
    get_conversation_summary(history).len <= SummaryBound

\* Three completed turns with long questions and long answers: the summary
\* has the greatest length.
C21_Witness ==
    /\ Len(EarlierExchanges) = 3
    /\ \A i \in DOMAIN history : history[i].content.len > 200
    /\ get_conversation_summary(history).len = SummaryBound
    /\ stored_summary = get_conversation_summary(history).text
    /\ llm_requests # << >>

-----------------------------------------------------------------------------
\* The complete exchanges of the stored rows: each user row with the
\* assistant row that is the next row of the conversation.
CompletePairs == PairUp(history, 1)

\* The summary of the last two complete exchanges, oldest first; the empty
\* text when there is none.
SummaryOfCompletePairs ==
    IF CompletePairs = << >> THEN ""
    ELSE SummaryText(SubSeq(CompletePairs,
                            IF Len(CompletePairs) > 2 THEN Len(CompletePairs) - 1 ELSE 1,
                            Len(CompletePairs))).text

\* C30: get_conversation_summary pairs each user row with the assistant row
\* that immediately follows it, leaves out a user row without a following
\* assistant row, keeps the last 2 such pairs in chronological order, and
\* returns the empty string when there is no complete pair.
C30_PairsConsecutiveRows ==
    get_conversation_summary(history).text = SummaryOfCompletePairs

-----------------------------------------------------------------------------
\* the k-th answer carried tool calls and its text was returned as the
\* final report, its calls left undone
StoppedGathering(k) ==
    /\ AsksTools(k)
    /\ k = Len(responses)
    /\ Returned
    /\ result.response = <<responses[k].content>>

\* C29: a text beside tool calls is taken for the final report only if it is
\* longer than the minimum length and holds more than one of the section
\* markers; a text with a single marker, or a shorter text, never makes
\* chat_with_llm stop gathering.
C29_ReportNeedsSeveralMarkers ==
    IsChat =>
        \A k \in DOMAIN responses :
            StoppedGathering(k) =>
                /\ TextLen(responses[k].content) > MinReportLen
                /\ Cardinality(KeywordsIn(responses[k].content) \cap Keywords) > 1

-----------------------------------------------------------------------------
\* arguments that are no JSON text, or JSON that is no object of the
\* expected parameters
Malformed(tc) == tc.arguments # "object"

\* C27: a tool call with malformed arguments never ends the investigation:
\* once its batch is dispatched the call has its tool message, and the loop
\* goes on to the next LLM request.
C27_MalformedArgumentsSurvive ==
    IsChat =>
        \A k \in DOMAIN responses :
            Dispatched(k) =>
                \A i \in DOMAIN responses[k].tool_calls :
                    Malformed(responses[k].tool_calls[i]) =>
                        /\ Answered(k, i)
                        /\ \/ k < Len(llm_requests)
                           \/ pc \in {"gather", "finalize"}

-----------------------------------------------------------------------------
\* calls of one persistence function, in order
SavedBy(fn) == SelectSeq(saved, LAMBDA c : c.fn = fn)

\* the call returned the text of an LLM answer
ReturnedLlmText ==
    /\ Returned
    /\ responses # << >>
    /\ LET r == responses[Len(responses)]
       IN  /\ r.kind = "reply"
           /\ StatusOk(r)
           /\ Truthy(r.content)
           /\ result.response = <<r.content>>

\* the call returned the synthesized text that lists the tools used
ReturnedFallback ==
    /\ Returned
    /\ tool_results_collected # << >>
    /\ result.response = Fallback(tool_results_collected)

\* C26: save_investigation is called exactly once in every call that ends
\* with a final answer of the investigation (a text of the LLM returned
\* after gathering or after the finalization pass, or the synthesized
\* fallback), and never more than once in one call.
C26_OneInvestigationRow ==
    IsChat =>
        /\ Len(SavedBy("save_investigation")) <= 1
        /\ (ReturnedLlmText \/ ReturnedFallback) =>
               Len(SavedBy("save_investigation")) = 1

-----------------------------------------------------------------------------
\* save_message calls with one role, in order
SavedMessages(role) ==
    SelectSeq(saved, LAMBDA c : c.fn = "save_message" /\ c.role = role)

\* C25 as stated: a call of chat_with_llm that has ended has called
\* save_message exactly once with the user question and exactly once with
\* the text it returned.
C25_ExactlyOncePerCall ==
    (IsChat /\ pc \in {"done", "raised"}) =>
        /\ Len(SavedMessages("user")) = 1
        /\ SavedMessages("user")[1].text = <<question>>
        /\ Len(SavedMessages("assistant")) = 1
        /\ SavedMessages("assistant")[1].text = result.response

\* C25: in one call of chat_with_llm save_message is called with the user
\* question once, before the first LLM request, unless the call raises
\* before it gets there; it is called with an assistant text at most once,
\* namely when the call returns the text of an LLM answer or the synthesized
\* list of the tools used, and with exactly the text returned; it is never
\* called with a tool result or while the investigation still goes on.
C25_SavedMessages ==
    IsChat =>
        /\ \A i \in DOMAIN saved :
               saved[i].fn = "save_message" => saved[i].role \in {"user", "assistant"}
        /\ Len(SavedMessages("user")) = (IF pc \in {"start", "raised"} THEN 0 ELSE 1)
        /\ \A i \in DOMAIN SavedMessages("user") :
               SavedMessages("user")[i].text = <<question>>
        /\ Len(SavedMessages("assistant")) =
               (IF ReturnedLlmText \/ ReturnedFallback THEN 1 ELSE 0)
        /\ \A i \in DOMAIN SavedMessages("assistant") :
               SavedMessages("assistant")[i].text = result.response

\* A call that ran tools in two passes and was then asked for its summary:
\* the messages hold tool-calling assistant messages and tool results, and
\* only the question and the returned summary were saved.
C25_Witness ==
    /\ Returned
    /\ ReturnedLlmText
    /\ ~llm_requests[Len(llm_requests)].tools
    /\ Cardinality({i \in DOMAIN messages : messages[i].role = "tool"}) >= 2
    /\ Cardinality({i \in DOMAIN messages :
                       messages[i].role = "assistant" /\ messages[i].tool_calls # << >>}) >= 2
    /\ Len(SavedMessages("user")) = 1
    /\ Len(SavedMessages("assistant")) = 1

-----------------------------------------------------------------------------
\* what the i-th persistence write of the call came to
WriteOutcome(i) == save_call(saved[i], question, lakebase)

-----------------------------------------------------------------------------
\* the table of the first n rows of the result: the column header, the
\* separator and one line for each row
TableOfFirst(n) ==
    join_lines(<<"| " \o join_cells(sql_result.columns) \o " |",
                 "| " \o join_cells([j \in DOMAIN sql_result.columns |-> "---"]) \o " |">>
               \o [i \in 1..n |->
                      "| " \o join_cells([j \in DOMAIN sql_result.columns |->
                                            str(row_get(sql_result.rows[i],
                                                        sql_result.columns[j]))])
                           \o " |"])

MarkdownReturned == "text" \in DOMAIN markdown

\* C23: to_markdown returns '**Error:** <error>' whenever error is set,
\* whatever the rows; otherwise '_No results_' when rows is empty; otherwise
\* the table of at most the first 20 rows, followed by the note 'Showing 20
\* of <row_count> rows' exactly when there are more than 20 rows.
C23_MarkdownOfResult ==
    MarkdownReturned =>
        LET n == Len(sql_result.rows)
        IN  markdown.text =
                (IF sql_result.error # None
                 THEN "**Error:** " \o sql_result.error
                 ELSE IF n = 0
                 THEN "_No results_"
                 ELSE IF n > 20
                 THEN TableOfFirst(20) \o "\n\n_Showing 20 of "
                        \o ToString(sql_result.row_count) \o " rows_"
                 ELSE TableOfFirst(n))

-----------------------------------------------------------------------------
\* C24: the state create_initial_state(question) returns, with which every
\* investigation starts: original_question = question, current_step =
\* 'classify', iteration_count = 0, max_iterations = 5, should_continue =
\* true, a trace_id that is not null, an empty message list and no
\* final_response.
C24_InitialState ==
    (entry = "investigate" /\ pc = "classify") =>
        /\ state = create_initial_state(question)
        /\ state.original_question = question
        /\ state.current_step = "classify"
        /\ state.iteration_count = 0
        /\ state.max_iterations = 5
        /\ state.should_continue = TRUE
        /\ state.trace_id # None
        /\ state.messages = << >>
        /\ state.final_response = None

\* investigate('Why is X broken?') has made its state and no node has run.
C24_Witness ==
    /\ entry = "investigate"
    /\ pc = "classify"
    /\ question = "Why is X broken?"
    /\ state.original_question = "Why is X broken?"
    /\ llm_requests = << >>

-----------------------------------------------------------------------------
\* C28: every network call of an investigation is made with an explicit
\* timeout (each LLM request and the upstream request of each tool that
\* ran), so chat_with_llm is never left waiting for a peer that does not
\* answer.
C28_EveryCallHasTimeout ==
    IsChat =>
        /\ \A i \in DOMAIN llm_requests : llm_requests[i].timeout # None
        /\ \A e \in DOMAIN executed : ToolTimeout(executed[e].name) # None
        /\ pc # "waiting"

-----------------------------------------------------------------------------
\* A turn of the server is under way or has ended.
InTurn == server = "datascope-ui-app" /\ request.n > 0

\* The ids generate_id has given so far.
GeneratedIds == {generate_id(k) : k \in 0..(generated - 1)}

\* C31: a conversation id is generated, and save_conversation called, only
\* when the request carries no conversation_id (none, null or an empty
\* one); a supplied conversation_id is returned unchanged with the response
\* and save_conversation is not called for it, so over any sequence of turns
\* each conversation is created at most once.
C31_CreatedAtMostOnce ==
    InTurn =>
        /\ \A i, j \in DOMAIN conversations :
              conversations[i] = conversations[j] => i = j
        /\ \A i \in DOMAIN conversations : conversations[i] \in GeneratedIds
        /\ Len(conversations) <= generated
        /\ generated <= request.n
        /\ request.question = "" =>
              /\ saved = << >>
              /\ conversation_id = request.conversation_id
        /\ (request.question # "" /\ pc # "start") =>
              IF NoConversationId(request.conversation_id)
              THEN /\ conversation_id = generate_id(generated - 1)
                   /\ pc # "raised" =>
                        /\ Len(SavedBy("save_conversation")) = 1
                        /\ conversations[Len(conversations)] = conversation_id
              ELSE /\ conversation_id = request.conversation_id
                   /\ SavedBy("save_conversation") = << >>
                   /\ request.conversation_id \notin GeneratedIds =>
                        \A i \in DOMAIN conversations :
                            conversations[i] # request.conversation_id
        /\ (request.question # "" /\ pc = "done") =>
              result.conversation_id = conversation_id

\* Two conversations were begun, and the third request is a follow-up of the
\* first: its answer carries the id the client sent.
C31_Witness ==
    /\ InTurn
    /\ request.n = 3
    /\ Len(conversations) = 2
    /\ request.conversation_id = conversations[1]
    /\ pc = "done"
    /\ llm_requests # << >>
    /\ result.conversation_id = conversations[1]

-----------------------------------------------------------------------------
\* The calls of invoke_agent that returned.
InvokeCalls ==
    {i \in DOMAIN invocations :
        invocations[i].fn = "invoke_agent" /\ invocations[i].returned}

\* The calls of create_agent without a tracer that returned.
UntracedCalls ==
    {i \in DOMAIN invocations :
        invocations[i].fn \in {"main", "health"} /\ invocations[i].returned}

\* C32: every invoke_agent call completes its trace exactly once before it
\* returns, when the agent succeeds and when it raises (the final output is
\* then the error marker); no path returns with the trace left open and no
\* path completes it twice.
C32_TraceCompletedOnce ==
    \A i \in InvokeCalls :
        /\ invocations[i].at_return.end_time # None
        /\ invocations[i].at_return.completions = 1
        /\ invocations[i].trace.completions = 1
        /\ invocations[i].outcome = "raises" =>
              invocations[i].at_return.final_output = ErrorMarker
        /\ invocations[i].outcome # "raises" =>
              invocations[i].at_return.final_output = invocations[i].response

-----------------------------------------------------------------------------
\* C33: the tracer has no effect on control flow: two invoke_agent calls
\* with the same agent outcome return the same response, whatever became of
\* logging the LLM span and of completing the trace.
C33_TracerIsSideChannel ==
    \A i, j \in InvokeCalls :
        invocations[i].outcome = invocations[j].outcome =>
            invocations[i].response = invocations[j].response

-----------------------------------------------------------------------------
\* C34: create_agent without a tracer builds the agent at most once per
\* process and afterwards returns that same cached object; an agent built
\* with a tracer is never stored in the cache, so the cached agent never
\* carries the tracer of an investigation and no tracer is shared between
\* two investigations.
C34_CacheHoldsUntracedAgent ==
    /\ _agent # NoAgent => _agent.tracer = None
    /\ Cardinality({i \in UntracedCalls : invocations[i].built}) <= 1
    /\ \A i \in UntracedCalls :
          /\ invocations[i].agent = _agent
          /\ invocations[i].agent = invocations[1].agent
    /\ \A i \in InvokeCalls :
          /\ invocations[i].built
          /\ invocations[i].agent.tracer = invocations[i].tracer
          /\ invocations[i].agent # _agent
          /\ \A j \in InvokeCalls :
                invocations[i].agent.tracer = invocations[j].agent.tracer => i = j

\* main built the agent, two investigations ran with their own agents, and a
\* later /health check got the agent main built.
C34_Witness ==
    /\ Len(invocations) = 4
    /\ invocations[1].fn = "main" /\ invocations[1].built
    /\ invocations[2].fn = "invoke_agent" /\ invocations[2].returned
    /\ invocations[3].fn = "invoke_agent" /\ invocations[3].returned
    /\ invocations[4].fn = "health" /\ ~invocations[4].built
    /\ invocations[4].agent = invocations[1].agent
    /\ invocations[2].agent.tracer # invocations[3].agent.tracer

-----------------------------------------------------------------------------
\* When the response that carried the cached token was handled.
FetchedAt(token) ==
    token_calls[CHOOSE i \in DOMAIN token_calls : token_calls[i].stored = token].ended

\* C35: get_oauth_token returns the cached token only while the current time
\* is before its expiry, the expiry is never later than 300 seconds after
\* the token was fetched, and once it has expired the next call requests a
\* new token instead of returning the stale one.
C35_TokenCacheExpires ==
    /\ \A i \in DOMAIN token_calls :
          LET c == token_calls[i]
          IN  /\ c.cached => /\ c.held # None
                             /\ c.at < c.expiry
                             /\ c.returned = c.held
              /\ (c.held # None /\ c.at >= c.expiry) =>
                    /\ c.requested
                    /\ c.returned # c.held
    /\ _oauth_token # None =>
          _oauth_token_expiry <= FetchedAt(_oauth_token) + 300

\* A token was fetched, returned from the cache by the next call, and after
\* its expiry the third call fetched another one.
C35_Witness ==
    /\ Len(token_calls) = 3
    /\ token_calls[1].requested /\ token_calls[1].returned = "token-1"
    /\ token_calls[2].cached /\ token_calls[2].returned = "token-1"
    /\ token_calls[3].held = "token-1"
    /\ token_calls[3].at >= token_calls[3].expiry
    /\ token_calls[3].requested /\ token_calls[3].returned = "token-3"

-----------------------------------------------------------------------------
(***************************************************************************)
(* The gateway's authentication, GatewaySpec.                              *)
(***************************************************************************)

AuthConfigured == config.MCP_AUTH_TOKEN # "" \/ config.ALLOWED_SP_APP_ID # ""

\* the thread has a request at hand or behind it
Serves(t) == threads[t].pc \in {"validating", "done"}

\* the allowed-client check of lines 206-214
PassesClientCheck(token) ==
    LET claims == decode_jwt_claims(token)
    IN  claims.type = "dict" /\ claims.sub = config.ALLOWED_SP_APP_ID

\* C36: requests that find a cache empty or expired at the same time do not
\* each start a refresh of their own: no two threads of the gateway wait at
\* the same time for the upstream's verdict on one and the same token.
C36_OneRefreshAtATime ==
    \A a, b \in GatewayThreads :
        (a # b /\ threads[a].pc = "validating" /\ threads[b].pc = "validating")
            => threads[a].token # threads[b].token

\* the bearer token of a request the gateway has answered is missing or is
\* not one the configured mode accepts
MissingOrInvalid(t) ==
    LET token == threads[t].token
    IN  \/ token = ""
        \/ config.MCP_AUTH_TOKEN # "" /\ token # config.MCP_AUTH_TOKEN
        \/ /\ config.MCP_AUTH_TOKEN = ""
           /\ config.ALLOWED_SP_APP_ID # ""
           /\ \/ ~PassesClientCheck(token)
              \/ threads[t].source = "upstream" /\ threads[t].reply # EndpointRuns
              \/ threads[t].source = "cache" /\ threads[t].reply # EndpointRuns

\* C37: with an authentication mode configured, a request whose bearer token
\* is missing or invalid does not reach mcp_endpoint and is answered with a
\* JSON-RPC error of code -32001.
C37_RejectedWithAuthError ==
    \A t \in GatewayThreads :
        (AuthConfigured /\ threads[t].pc = "done" /\ MissingOrInvalid(t))
            => /\ ~threads[t].ran
               /\ "error" \in DOMAIN threads[t].reply.body
               /\ threads[t].reply.body.error.code = AUTH_ERROR

\* thread t ends a request in this step
Answers(t) == threads'[t] # threads[t] /\ threads'[t].pc = "done"

\* C39: validate_oauth_token decides from its cache only while the entry is
\* unexpired, and then as the entry says; an entry is stored as valid only
\* for a token that passed the allowed-client check and that the upstream
\* has just answered with 200; a valid entry expires at most 300 seconds and
\* an invalid one at most 60 seconds after it was stored; and a request
\* whose token has an expired entry is not decided from the cache: it goes
\* through the client check and, passing it, to the upstream.
C39_CacheDecidesWhileUnexpired ==
    [][\A t \in GatewayThreads :
        /\ (Answers(t) /\ threads'[t].source = "cache")
            => LET key == token_hash(threads'[t].token)
               IN  /\ key \in DOMAIN _token_cache
                   /\ now < _token_cache[key].expiry
                   /\ threads'[t].ran = _token_cache[key].is_valid
        /\ \A key \in DOMAIN _token_cache' :
            (key \notin DOMAIN _token_cache \/ _token_cache'[key] # _token_cache[key])
                => IF _token_cache'[key].is_valid
                   THEN /\ _token_cache'[key].expiry <= now + 300
                        /\ \E u \in GatewayThreads :
                            /\ threads[u].pc = "validating"
                            /\ Answers(u)
                            /\ token_hash(threads[u].token) = key
                            /\ PassesClientCheck(threads[u].token)
                            /\ outbound' # outbound
                            /\ outbound'[Len(outbound')].token = threads[u].token
                            /\ outbound'[Len(outbound')].answer = [kind |-> "status", status |-> 200]
                   ELSE _token_cache'[key].expiry <= now + 60
        /\ ( /\ threads[t].pc \in {"idle", "done"}
             /\ threads'[t] # threads[t]
             /\ config.MCP_AUTH_TOKEN = ""
             /\ config.ALLOWED_SP_APP_ID # ""
             /\ threads'[t].token # ""
             /\ token_hash(threads'[t].token) \in DOMAIN _token_cache
             /\ _token_cache[token_hash(threads'[t].token)].expiry <= now )
            => /\ threads'[t].pc = "done" => threads'[t].source \in {"claims", "raise"}
               /\ PassesClientCheck(threads'[t].token) => threads'[t].pc = "validating"
    ]_vars

\* a token was validated, a request was served from its entry, and after the
\* entry's expiry a thread is asking the upstream about that token again
C39_Witness ==
    \E a, b \in GatewayThreads :
        /\ threads[a].pc = "validating"
        /\ token_hash(threads[a].token) \in DOMAIN _token_cache
        /\ _token_cache[token_hash(threads[a].token)].is_valid
        /\ _token_cache[token_hash(threads[a].token)].expiry <= now
        /\ threads[b].pc = "done"
        /\ threads[b].source = "cache"
        /\ threads[b].ran
        /\ threads[b].token = threads[a].token

-----------------------------------------------------------------------------
(***************************************************************************)
(* The order of an MCPClient's requests, ClientSpec.                       *)
(***************************************************************************)

\* the requests the first k method calls sent, in the order they were sent
RECURSIVE RequestsOf(_)
RequestsOf(k) == IF k = 0 THEN << >> ELSE RequestsOf(k - 1) \o mcp_requests[k].sent

RequestSucceeded(req) == req.answer # "fails"

\* the request was answered with a list of tools
Listed(req) == req.method = "tools/list" /\ req.answer \in {"ok", "nameless"}

====
